---- MODULE Spec2Model ----
(***************************************************************************)
(* Fixed-length binary-record store of PROJECT/CarManager.py:              *)
(* FileManager and its three bindings CarManager, CustomerManager and      *)
(* RentalManager.  A file is the sequence of its bytes; a Python dict is a *)
(* function from key strings to values; a Python str is the sequence of    *)
(* its code points; a float is the integer it equals.                      *)
(***************************************************************************)
EXTENDS Integers, Sequences, FiniteSets, TLC

(* ---------------------------- bounds ----------------------------------- *)
MaxSlots == 2      \* add_record never grows a file past this many slots
MaxId    == 2      \* record ids are drawn from 1..MaxId
MaxHist  == 3      \* the history is kept for this many writing calls
MaxMainSlots == 1  \* under main, the car and customer files hold this many slots

(* ------------------------- 1. constants -------------------------------- *)
\* struct format strings, one entry per field: code and repeat count
CAR_FORMAT ==
  << <<"?", 1>>, <<"i", 1>>, <<"s", 30>>, <<"s", 10>>, <<"d", 1>> >>
CUSTOMER_FORMAT ==
  << <<"?", 1>>, <<"i", 1>>, <<"s", 50>>, <<"s", 15>> >>
RENTAL_FORMAT ==
  << <<"?", 1>>, <<"i", 1>>, <<"i", 1>>, <<"i", 1>>, <<"i", 1>>, <<"i", 1>>,
     <<"d", 1>> >>

Managers == {"car", "customer", "rental"}

Format(m) ==
  CASE m = "car"      -> CAR_FORMAT
    [] m = "customer" -> CUSTOMER_FORMAT
    [] m = "rental"   -> RENTAL_FORMAT

(* ------------------------- struct module ------------------------------- *)
FieldSize(f) ==
  CASE f[1] = "?" -> 1
    [] f[1] = "i" -> 4
    [] f[1] = "s" -> f[2]
    [] f[1] = "d" -> 8

RECURSIVE calcsize(_)
calcsize(fmt) ==
  IF fmt = << >> THEN 0 ELSE FieldSize(Head(fmt)) + calcsize(Tail(fmt))

\* self.record_size
record_size(m) == calcsize(Format(m))

Pow2(n) == 2 ^ n

Zeros(n) == [i \in 1..n |-> 0]

\* (variant: the flag byte written is always 1)
PackBool_AlwaysTrue(b) == << 1 >>
\* '?': any true value is byte 1, false is byte 0
PackBool(b) == << IF b THEN 1 ELSE 0 >>
UnpackBool(bs) == bs[1] # 0

\* 'i': signed 32-bit little-endian, two's complement
\* (variant: packed with the 2-byte code 'h')
PackInt32_Short(v) == << v % 256, (v \div 256) % 256 >>
InInt32(v) == v >= -2147483647 - 1 /\ v <= 2147483647
PackInt32(v) ==
  LET w == IF v >= 0 THEN v ELSE (v + 2147483647) + 1
      top == (w \div 16777216) + (IF v >= 0 THEN 0 ELSE 128)
  IN  << w % 256, (w \div 256) % 256, (w \div 65536) % 256, top >>
UnpackInt32(bs) ==
  LET low == bs[1] + 256 * bs[2] + 65536 * bs[3] + 16777216 * (bs[4] % 128)
  IN  IF bs[4] < 128 THEN low ELSE (low - 2147483647) - 1

\* 'Ns': the byte string cut or zero-padded to exactly N bytes
PackBytes(bs, n) ==
  [i \in 1..n |-> IF i <= Len(bs) THEN bs[i] ELSE 0]

\* 'd': IEEE 754 binary64, little-endian, of an integer-valued float
\* with |v| < 2^21
InDouble(v) == v > -2097152 /\ v < 2097152
PackDouble(v) ==
  IF v = 0 THEN Zeros(8)
  ELSE
    LET a      == IF v < 0 THEN 0 - v ELSE v
        e      == CHOOSE k \in 0..20 : Pow2(k) <= a /\ a < Pow2(k + 1)
        biased == e + 1023
        top20  == (a - Pow2(e)) * Pow2(20 - e)
        sign   == IF v < 0 THEN 128 ELSE 0
    IN  << 0, 0, 0, 0,
           top20 % 256,
           (top20 \div 256) % 256,
           (biased % 16) * 16 + (top20 \div 65536),
           sign + (biased \div 16) >>
\* a bit pattern that is no integer of that range is kept as its 8 bytes
UnpackDouble(bs) ==
  LET biased == (bs[8] % 128) * 16 + (bs[7] \div 16)
      top20  == (bs[7] % 16) * 65536 + bs[6] * 256 + bs[5]
      e      == biased - 1023
      lowZero == bs[1] = 0 /\ bs[2] = 0 /\ bs[3] = 0 /\ bs[4] = 0
  IN  IF bs = Zeros(8) THEN 0
      ELSE IF lowZero /\ e >= 0 /\ e <= 20 /\ top20 % Pow2(20 - e) = 0
           THEN LET a == Pow2(e) + (top20 \div Pow2(20 - e))
                IN  IF bs[8] >= 128 THEN 0 - a ELSE a
           ELSE bs

(* ------------------------- text codec ---------------------------------- *)
\* str.encode('utf-8') raises UnicodeEncodeError on a lone surrogate, a code
\* point it has no bytes for
EncodeRaises(s) == \E i \in 1..Len(s) : s[i] \in 55296..57343

\* str.encode('utf-8') of one code point; on a lone surrogate it raises
\* UnicodeEncodeError and there is no value (no case applies)
EncodeChar(c) ==
  CASE c \in 0..127 -> << c >>
    [] c \in 128..2047 -> << 192 + (c \div 64), 128 + (c % 64) >>
    [] c \in 2048..55295 \/ c \in 57344..65535 ->
         << 224 + (c \div 4096), 128 + ((c \div 64) % 64), 128 + (c % 64) >>
    [] c \in 65536..1114111 ->
         << 240 + (c \div 262144), 128 + ((c \div 4096) % 64),
            128 + ((c \div 64) % 64), 128 + (c % 64) >>

RECURSIVE encode(_)
encode(s) ==
  IF s = << >> THEN << >> ELSE EncodeChar(Head(s)) \o encode(Tail(s))

IsCont(bs, i, lo, hi) == i <= Len(bs) /\ bs[i] >= lo /\ bs[i] <= hi

\* bytes.decode('utf-8', errors='ignore'): an ill-formed sequence is dropped
\* up to its maximal well-formed prefix and decoding goes on after it
RECURSIVE DecodeFrom(_, _)
DecodeFrom(bs, i) ==
  IF i > Len(bs) THEN << >>
  ELSE
    LET c == bs[i] IN
    IF c < 128 THEN << c >> \o DecodeFrom(bs, i + 1)
    ELSE IF c >= 194 /\ c <= 223 THEN
      IF IsCont(bs, i + 1, 128, 191)
      THEN << (c - 192) * 64 + (bs[i + 1] - 128) >> \o DecodeFrom(bs, i + 2)
      ELSE DecodeFrom(bs, i + 1)
    ELSE IF c >= 224 /\ c <= 239 THEN
      LET lo == IF c = 224 THEN 160 ELSE 128
          hi == IF c = 237 THEN 159 ELSE 191
      IN  IF ~IsCont(bs, i + 1, lo, hi) THEN DecodeFrom(bs, i + 1)
          ELSE IF ~IsCont(bs, i + 2, 128, 191) THEN DecodeFrom(bs, i + 2)
          ELSE << (c - 224) * 4096 + (bs[i + 1] - 128) * 64
                  + (bs[i + 2] - 128) >> \o DecodeFrom(bs, i + 3)
    ELSE IF c >= 240 /\ c <= 244 THEN
      LET lo == IF c = 240 THEN 144 ELSE 128
          hi == IF c = 244 THEN 143 ELSE 191
      IN  IF ~IsCont(bs, i + 1, lo, hi) THEN DecodeFrom(bs, i + 1)
          ELSE IF ~IsCont(bs, i + 2, 128, 191) THEN DecodeFrom(bs, i + 2)
          ELSE IF ~IsCont(bs, i + 3, 128, 191) THEN DecodeFrom(bs, i + 3)
          ELSE << (c - 240) * 262144 + (bs[i + 1] - 128) * 4096
                  + (bs[i + 2] - 128) * 64 + (bs[i + 3] - 128) >>
               \o DecodeFrom(bs, i + 4)
    ELSE DecodeFrom(bs, i + 1)

decode(bs) == DecodeFrom(bs, 1)

\* str.isspace of one code point
IsSpace(c) ==
  \/ c \in 9..13
  \/ c \in 28..32
  \/ c \in {133, 160, 5760, 8232, 8233, 8239, 8287, 12288}
  \/ c \in 8192..8202

\* str.strip()
strip(s) ==
  LET keep == {i \in 1..Len(s) : ~IsSpace(s[i])}
  IN  IF keep = {} THEN << >>
      ELSE LET a == CHOOSE i \in keep : \A j \in keep : i <= j
               b == CHOOSE i \in keep : \A j \in keep : j <= i
           IN  SubSeq(s, a, b)

\* index of the first zero byte at or after i, Len(bs) + 1 when there is none
RECURSIVE FirstNul(_, _)
FirstNul(bs, i) ==
  IF i > Len(bs) \/ bs[i] = 0 THEN i ELSE FirstNul(bs, i + 1)

\* bytes.split(b'\x00', 1)[0]
BeforeNul(bs) == SubSeq(bs, 1, FirstNul(bs, 1) - 1)

\* bytes.ljust(n, b'\x00'): pads, never cuts
ljust(bs, n) ==
  IF Len(bs) >= n THEN bs ELSE bs \o Zeros(n - Len(bs))

\* a text field as _unpack_record reads it
\* (variant: the strip left out)
UnpackText_NoStrip(bs) == decode(BeforeNul(bs))

UnpackText(bs) == strip(decode(BeforeNul(bs)))

(* ------------------------- dict helpers -------------------------------- *)
EmptyDict == [k \in {} |-> 0]

\* dict.get(key, default)
DictGet(d, k, default) == IF k \in DOMAIN d THEN d[k] ELSE default

\* d.update(e) on a copy of d
DictUpdate(d, e) ==
  [k \in (DOMAIN d) \cup (DOMAIN e) |-> IF k \in DOMAIN e THEN e[k] ELSE d[k]]

(* ------------------------- 3. minimal overrides ------------------------ *)
\* the keys _pack_record subscripts (a missing one raises KeyError)
RequiredKeys(m) ==
  CASE m = "car"      -> {"ID", "Model", "LicensePlate", "DailyRate"}
    [] m = "customer" -> {"ID", "Name", "Phone"}
    [] m = "rental"   -> {"ID", "CustomerID", "CarID", "StartDate",
                          "TotalPrice"}

\* the keys packed with the 'i' code (out of range raises struct.error)
IntKeys(m) ==
  CASE m = "car"      -> {"ID"}
    [] m = "customer" -> {"ID"}
    [] m = "rental"   -> {"ID", "CustomerID", "CarID", "StartDate", "EndDate"}

\* the keys _pack_record encodes as text, in the order it encodes them
EncodedKeys(m) ==
  CASE m = "car"      -> << "Model", "LicensePlate" >>
    [] m = "customer" -> << "Name", "Phone" >>
    [] m = "rental"   -> << >>

\* _pack_record raises instead of returning bytes
PackRaises(m, data) ==
  \/ RequiredKeys(m) \ (DOMAIN data) # {}
  \/ \E i \in 1..Len(EncodedKeys(m)) : \A k \in {EncodedKeys(m)[i]} :
       k \in DOMAIN data /\ EncodeRaises(data[k])
  \/ \E k \in IntKeys(m) \cap (DOMAIN data) : ~InInt32(data[k])

CarManager_pack_record(data) ==
  LET model_bytes   == ljust(encode(data["Model"]), 30)
      license_bytes == ljust(encode(data["LicensePlate"]), 10)
  IN  PackBool(DictGet(data, "IsActive", TRUE))
      \o PackInt32(data["ID"])
      \o PackBytes(model_bytes, 30)
      \o PackBytes(license_bytes, 10)
      \o PackDouble(data["DailyRate"])

\* (variant: Model and LicensePlate read from each other's bytes)
CarManager_unpack_record_Swapped(bs) ==
  [IsActive     |-> UnpackBool(SubSeq(bs, 1, 1)),
   ID           |-> UnpackInt32(SubSeq(bs, 2, 5)),
   Model        |-> UnpackText(SubSeq(bs, 36, 45)),
   LicensePlate |-> UnpackText(SubSeq(bs, 6, 35)),
   DailyRate    |-> UnpackDouble(SubSeq(bs, 46, 53))]

CarManager_unpack_record(bs) ==
  [IsActive     |-> UnpackBool(SubSeq(bs, 1, 1)),
   ID           |-> UnpackInt32(SubSeq(bs, 2, 5)),
   Model        |-> UnpackText(SubSeq(bs, 6, 35)),
   LicensePlate |-> UnpackText(SubSeq(bs, 36, 45)),
   DailyRate    |-> UnpackDouble(SubSeq(bs, 46, 53))]

CustomerManager_pack_record(data) ==
  LET name_bytes  == ljust(encode(data["Name"]), 50)
      phone_bytes == ljust(encode(data["Phone"]), 15)
  IN  PackBool(DictGet(data, "IsActive", TRUE))
      \o PackInt32(data["ID"])
      \o PackBytes(name_bytes, 50)
      \o PackBytes(phone_bytes, 15)

CustomerManager_unpack_record(bs) ==
  [IsActive |-> UnpackBool(SubSeq(bs, 1, 1)),
   ID       |-> UnpackInt32(SubSeq(bs, 2, 5)),
   Name     |-> UnpackText(SubSeq(bs, 6, 55)),
   Phone    |-> UnpackText(SubSeq(bs, 56, 70))]

RentalManager_pack_record(data) ==
  PackBool(DictGet(data, "IsActive", TRUE))
  \o PackInt32(data["ID"])
  \o PackInt32(data["CustomerID"])
  \o PackInt32(data["CarID"])
  \o PackInt32(data["StartDate"])
  \o PackInt32(DictGet(data, "EndDate", 0))
  \o PackDouble(data["TotalPrice"])

RentalManager_unpack_record(bs) ==
  [IsActive   |-> UnpackBool(SubSeq(bs, 1, 1)),
   ID         |-> UnpackInt32(SubSeq(bs, 2, 5)),
   CustomerID |-> UnpackInt32(SubSeq(bs, 6, 9)),
   CarID      |-> UnpackInt32(SubSeq(bs, 10, 13)),
   StartDate  |-> UnpackInt32(SubSeq(bs, 14, 17)),
   EndDate    |-> UnpackInt32(SubSeq(bs, 18, 21)),
   TotalPrice |-> UnpackDouble(SubSeq(bs, 22, 29))]

\* self._pack_record / self._unpack_record, dispatched on the subclass
_pack_record(m, data) ==
  CASE m = "car"      -> CarManager_pack_record(data)
    [] m = "customer" -> CustomerManager_pack_record(data)
    [] m = "rental"   -> RentalManager_pack_record(data)

_unpack_record(m, bs) ==
  CASE m = "car"      -> CarManager_unpack_record(bs)
    [] m = "customer" -> CustomerManager_unpack_record(bs)
    [] m = "rental"   -> RentalManager_unpack_record(bs)

(* ------------------------- file object --------------------------------- *)
\* file.seek(off); file.write(bs): overwrites in place, grows the file when
\* the write runs past its end
WriteAt(f, off, bs) ==
  LET n == IF off + Len(bs) > Len(f) THEN off + Len(bs) ELSE Len(f)
  IN  [i \in 1..n |->
         IF i > off /\ i <= off + Len(bs) THEN bs[i - off]
         ELSE IF i <= Len(f) THEN f[i] ELSE 0]

\* file.seek(off); file.read(n)
ReadAt(f, off, n) ==
  SubSeq(f, off + 1, IF off + n <= Len(f) THEN off + n ELSE Len(f))

(* ------------------------- 2. base manager ----------------------------- *)
\* (variant: the flag test inverted, the first active slot is taken)
RECURSIVE AddScan_Inverted(_, _, _)
AddScan_Inverted(f, rs, current_offset) ==
  LET status_byte     == ReadAt(f, current_offset, 1)
      remaining_bytes == ReadAt(f, current_offset + 1, rs - 1)
  IN  IF status_byte = << >> THEN Len(f)
      ELSE IF Len(remaining_bytes) < rs - 1 THEN Len(f)
      ELSE IF UnpackBool(status_byte) THEN current_offset
      ELSE AddScan_Inverted(f, rs, current_offset + rs)

\* the scan loop of add_record: the offset the packed record is written at
RECURSIVE AddScan(_, _, _)
AddScan(f, rs, current_offset) ==
  LET status_byte     == ReadAt(f, current_offset, 1)
      remaining_bytes == ReadAt(f, current_offset + 1, rs - 1)
  IN  IF status_byte = << >> THEN Len(f)
      ELSE IF Len(remaining_bytes) < rs - 1 THEN Len(f)
      ELSE IF ~UnpackBool(status_byte) THEN current_offset
      ELSE AddScan(f, rs, current_offset + rs)

\* (variant: no scan, every record is appended)
AddOffset_NoReuse(m, f) == Len(f)
\* (variant: the scan starts at the second slot)
AddOffset_SkipFirst(m, f) == AddScan(f, record_size(m), record_size(m))

AddOffset(m, f) == AddScan(f, record_size(m), 0)

\* (variant: the IsActive test left out)
RECURSIVE GetScan_NoActive(_, _, _, _)
GetScan_NoActive(m, f, record_id, offset) ==
  LET record_bytes == ReadAt(f, offset, record_size(m))
  IN  IF Len(record_bytes) < record_size(m) THEN << >>
      ELSE LET record_data == _unpack_record(m, record_bytes)
           IN  IF record_data["ID"] = record_id
               THEN << record_data, offset >>
               ELSE GetScan_NoActive(m, f, record_id, offset + record_size(m))

\* (variant: a short read at the end is padded with zero bytes and decoded)
RECURSIVE GetScan_PadsPartial(_, _, _, _)
GetScan_PadsPartial(m, f, record_id, offset) ==
  LET record_bytes == ReadAt(f, offset, record_size(m))
  IN  IF record_bytes = << >> THEN << >>
      ELSE LET record_data == _unpack_record(m, ljust(record_bytes,
                                                      record_size(m)))
           IN  IF record_data["IsActive"] /\ record_data["ID"] = record_id
               THEN << record_data, offset >>
               ELSE GetScan_PadsPartial(m, f, record_id,
                                        offset + record_size(m))

\* get_record_by_id: << >> for None, else <<record_data, offset>>
RECURSIVE GetScan(_, _, _, _)
GetScan(m, f, record_id, offset) ==
  LET record_bytes == ReadAt(f, offset, record_size(m))
  IN  IF Len(record_bytes) < record_size(m) THEN << >>
      ELSE LET record_data == _unpack_record(m, record_bytes)
           IN  IF record_data["IsActive"] /\ record_data["ID"] = record_id
               THEN << record_data, offset >>
               ELSE GetScan(m, f, record_id, offset + record_size(m))

get_record_by_id(m, f, record_id) == GetScan(m, f, record_id, 0)

\* (variant: the merge the wrong way round, old values win)
UpdatedData_OldWins(old_data, record_id, new_data) ==
  LET merged == DictUpdate(new_data, old_data)
  IN  DictUpdate(merged,
                 [ID |-> record_id, IsActive |-> old_data["IsActive"]])

\* (variant: ID and IsActive of new_data are not overridden)
UpdatedData_NewWins(old_data, record_id, new_data) ==
  LET copy == IF "EndDate" \in DOMAIN old_data THEN old_data
              ELSE DictUpdate(old_data, [EndDate |-> 0])
  IN  DictUpdate(copy, new_data)

\* the dict update_record packs
UpdatedData(old_data, record_id, new_data) ==
  LET copy == IF "EndDate" \in DOMAIN old_data THEN old_data
              ELSE DictUpdate(old_data, [EndDate |-> 0])
      merged == DictUpdate(copy, new_data)
  IN  DictUpdate(merged,
                 [ID |-> record_id, IsActive |-> old_data["IsActive"]])

\* (variant: the IsActive test left out, every slot is listed)
RECURSIVE GetAllScan_KeepAll(_, _, _)
GetAllScan_KeepAll(m, f, offset) ==
  LET record_bytes == ReadAt(f, offset, record_size(m))
  IN  IF Len(record_bytes) < record_size(m) THEN << >>
      ELSE << _unpack_record(m, record_bytes) >>
             \o GetAllScan_KeepAll(m, f, offset + record_size(m))

\* the read loop of get_all_records: active_records from offset on
RECURSIVE GetAllScan(_, _, _)
GetAllScan(m, f, offset) ==
  LET record_bytes == ReadAt(f, offset, record_size(m))
  IN  IF Len(record_bytes) < record_size(m) THEN << >>
      ELSE LET record_data == _unpack_record(m, record_bytes)
           IN  (IF record_data["IsActive"] THEN << record_data >>
                ELSE << >>)
                 \o GetAllScan(m, f, offset + record_size(m))

get_all_records(m, f) == GetAllScan(m, f, 0)

\* (variant: delete zeroes the whole slot)
DeletedFlagBytes_ZeroOut(m) == Zeros(record_size(m))

\* deleted_flag_bytes of delete_record: struct.pack('<?', False)
DeletedFlagBytes(m) == PackBool(FALSE)

\* (variant: a closed file object accepts every call)
FileRaises_Never(h) == FALSE

\* a method of a closed file object (flush, seek) raises ValueError
FileRaises(h) == h = "closed"

(* ------------------------- state --------------------------------------- *)
\* files[m]  : the bytes of the manager's file (cars.bin, customers.bin,
\*             rentals.bin)
\* handle[m] : "none" before FileManager.__init__, "open" after it,
\*             "closed" after FileManager.close
\* last      : the most recent FileManager call, its arguments and outcome
\* hist      : the calls that wrote to a file so far, oldest first, while
\*             there are at most MaxHist of them; Forgotten afterwards
\* menu      : where main and its menus stand (NoMenu when the managers are
\*             driven directly)
\* pos[m]    : the position of the manager's file object, followed under
\*             SpecReads; elsewhere it is left at 0, every method being
\*             given from the file content alone
VARIABLES files, handle, last, hist, menu, pos
vars == <<files, handle, last, hist, menu, pos>>

\* a call that returned ret
Call(op, m, id, arg, ret, offset) ==
  [op |-> op, m |-> m, id |-> id, arg |-> arg, ret |-> ret,
   offset |-> offset, exc |-> "none"]

\* a call that raised exc
Raise(op, m, id, arg, exc) ==
  [op |-> op, m |-> m, id |-> id, arg |-> arg, ret |-> << >>,
   offset |-> -1, exc |-> exc]

NoCall == Call("none", "none", 0, EmptyDict, << >>, -1)

Forgotten == << Call("forgotten", "none", 0, EmptyDict, << >>, -1) >>

Remember(h, c) ==
  IF h = Forgotten THEN Forgotten
  ELSE IF Len(h) < MaxHist THEN Append(h, c)
  ELSE Forgotten

NoMenu == [pc |-> "none"]

(* ------------------------- inputs -------------------------------------- *)
Ids == 1..MaxId

\* "T", "A", "S", "0"
Sample(m, id) ==
  CASE m = "car" ->
         [ID |-> id, Model |-> <<84>>, LicensePlate |-> <<65>>,
          DailyRate |-> 1200]
    [] m = "customer" ->
         [ID |-> id, Name |-> <<83>>, Phone |-> <<48>>]
    [] m = "rental" ->
         [ID |-> id, CustomerID |-> 1, CarID |-> 1, StartDate |-> 1012025,
          EndDate |-> 3012025, TotalPrice |-> 3600]

AddInputs(m) == {Sample(m, id) : id \in Ids}

UpdateInputs(m) ==
  CASE m = "car"      -> {[DailyRate |-> 1500]}
    [] m = "customer" -> {[Phone |-> <<57>>]}
    [] m = "rental"   -> {[TotalPrice |-> 1200]}

(* ------------------------- operations ---------------------------------- *)
\* (variant: a second close opens the file anew with 'w+b' and closes it)
close_Reopening(m) ==
  /\ handle[m] # "none"
  /\ last' = Call("close", m, 0, EmptyDict, << >>, -1)
  /\ handle' = [handle EXCEPT ![m] = "closed"]
  /\ files' = [files EXCEPT ![m] =
                 IF handle[m] = "closed" THEN << >> ELSE files[m]]
  /\ UNCHANGED hist

\* FileManager.close(): flush, fsync, close
close(m) ==
  /\ handle[m] # "none"
  /\ IF FileRaises(handle[m])
     THEN /\ last' = Raise("close", m, 0, EmptyDict, "ValueError")
          /\ UNCHANGED handle
     ELSE /\ last' = Call("close", m, 0, EmptyDict, << >>, -1)
          /\ handle' = [handle EXCEPT ![m] = "closed"]
  /\ UNCHANGED <<files, hist>>

\* the exception the text fields of _pack_record raise from field i on, one
\* after the other: data[key] first, .encode() next; "none" when each is
\* there and has an encoding
RECURSIVE TextError(_, _, _)
TextError(m, data, i) ==
  IF i > Len(EncodedKeys(m)) THEN "none"
  ELSE IF EncodedKeys(m)[i] \notin DOMAIN data THEN "KeyError"
  ELSE IF EncodeRaises(data[EncodedKeys(m)[i]]) THEN "UnicodeEncodeError"
  ELSE TextError(m, data, i + 1)

\* the exception _pack_record raises on data: the text fields are encoded
\* before struct.pack is called with the other fields
PackError(m, data) ==
  IF TextError(m, data, 1) # "none" THEN TextError(m, data, 1)
  ELSE IF RequiredKeys(m) \ (DOMAIN data) # {} THEN "KeyError"
  ELSE "struct.error"

\* (variant: the status byte is written before the record is packed)
AddRaisedFile_FlagFirst(m, f) ==
  WriteAt(f, AddOffset(m, f), PackBool(TRUE))

\* the file after add_record's _pack_record raised: the record is packed
\* before the first seek, so nothing was written
AddRaisedFile(m, f) == f

\* (variant: the caller's IsActive is kept)
ForceActive_AsGiven(data) == data

\* data['IsActive'] = True at the head of add_record
ForceActive(data) == DictUpdate(data, [IsActive |-> TRUE])

\* FileManager.add_record(data)
add_record(m, data) ==
  LET d      == ForceActive(data)
      f      == files[m]
      offset == AddOffset(m, f)
  IN  /\ handle[m] # "none"
      /\ IF PackRaises(m, d)
         THEN /\ last' = Raise("add_record", m, DictGet(data, "ID", 0),
                               data, PackError(m, d))
              /\ files' = [files EXCEPT ![m] = AddRaisedFile(m, f)]
              /\ UNCHANGED hist
         ELSE IF FileRaises(handle[m])
         THEN /\ last' = Raise("add_record", m, data["ID"], data,
                               "ValueError")
              /\ UNCHANGED <<files, hist>>
         ELSE /\ offset < Len(f) \/ Len(f) < MaxSlots * record_size(m)
              /\ files' = [files EXCEPT ![m] =
                             WriteAt(f, offset, _pack_record(m, d))]
              /\ last' = Call("add_record", m, data["ID"], data,
                              << offset >>, offset)
              /\ hist' = Remember(hist, last')
      /\ UNCHANGED handle

\* FileManager.update_record(record_id, new_data)
update_record(m, record_id, new_data) ==
  LET f      == files[m]
      result == get_record_by_id(m, f, record_id)
  IN  /\ handle[m] # "none"
      /\ IF FileRaises(handle[m])
         THEN /\ last' = Raise("update_record", m, record_id, new_data,
                               "ValueError")
              /\ UNCHANGED <<files, hist>>
         ELSE IF Len(result) = 0
         THEN /\ last' = Call("update_record", m, record_id, new_data,
                              << FALSE >>, -1)
              /\ UNCHANGED <<files, hist>>
         ELSE LET old_data     == result[1]
                  offset       == result[2]
                  updated_data == UpdatedData(old_data, record_id, new_data)
              IN  IF PackRaises(m, updated_data)
                  THEN /\ last' = Raise("update_record", m, record_id,
                                        new_data,
                                        PackError(m, updated_data))
                       /\ UNCHANGED <<files, hist>>
                  ELSE /\ files' = [files EXCEPT ![m] =
                                      WriteAt(f, offset,
                                              _pack_record(m, updated_data))]
                       /\ last' = Call("update_record", m, record_id,
                                       new_data, << TRUE >>, offset)
                       /\ hist' = Remember(hist, last')
      /\ UNCHANGED handle

\* FileManager.delete_record(record_id)
delete_record(m, record_id) ==
  LET f      == files[m]
      result == get_record_by_id(m, f, record_id)
  IN  /\ handle[m] # "none"
      /\ IF FileRaises(handle[m])
         THEN /\ last' = Raise("delete_record", m, record_id, EmptyDict,
                               "ValueError")
              /\ UNCHANGED <<files, hist>>
         ELSE IF Len(result) = 0
         THEN /\ last' = Call("delete_record", m, record_id, EmptyDict,
                              << FALSE >>, -1)
              /\ UNCHANGED <<files, hist>>
         ELSE LET offset == result[2]
                  deleted_flag_bytes == DeletedFlagBytes(m)
              IN  /\ files' = [files EXCEPT ![m] =
                                 WriteAt(f, offset, deleted_flag_bytes)]
                  /\ last' = Call("delete_record", m, record_id, EmptyDict,
                                  << TRUE >>, offset)
                  /\ hist' = Remember(hist, last')
      /\ UNCHANGED handle

\* a caller's FileManager.get_record_by_id(record_id)
call_get_record_by_id(m, record_id) ==
  LET result == get_record_by_id(m, files[m], record_id)
  IN  /\ handle[m] # "none"
      /\ IF FileRaises(handle[m])
         THEN last' = Raise("get_record_by_id", m, record_id, EmptyDict,
                            "ValueError")
         ELSE last' = Call("get_record_by_id", m, record_id, EmptyDict,
                           result,
                           IF Len(result) = 0 THEN -1 ELSE result[2])
      /\ UNCHANGED <<files, handle, hist>>

\* a caller's FileManager.get_all_records()
call_get_all_records(m) ==
  /\ handle[m] # "none"
  /\ IF FileRaises(handle[m])
     THEN last' = Raise("get_all_records", m, 0, EmptyDict, "ValueError")
     ELSE last' = Call("get_all_records", m, 0, EmptyDict,
                       get_all_records(m, files[m]), -1)
  /\ UNCHANGED <<files, handle, hist>>

(* ------------------------- specification ------------------------------- *)
\* one manager constructed on a file that did not exist
Init ==
  /\ files = [m \in Managers |-> << >>]
  /\ \E m0 \in Managers :
       handle = [m \in Managers |-> IF m = m0 THEN "open" ELSE "none"]
  /\ last = NoCall
  /\ hist = << >>
  /\ menu = NoMenu
  /\ pos = [m \in Managers |-> 0]

Add    == /\ \E m \in Managers : \E data \in AddInputs(m) :
               add_record(m, data)
          /\ UNCHANGED <<menu, pos>>
Update == /\ \E m \in Managers : \E id \in Ids : \E nd \in UpdateInputs(m) :
               update_record(m, id, nd)
          /\ UNCHANGED <<menu, pos>>
Delete == /\ \E m \in Managers : \E id \in Ids : delete_record(m, id)
          /\ UNCHANGED <<menu, pos>>
Get    == /\ \E m \in Managers : \E id \in Ids : call_get_record_by_id(m, id)
          /\ UNCHANGED <<menu, pos>>
GetAll == /\ \E m \in Managers : call_get_all_records(m)
          /\ UNCHANGED <<menu, pos>>
Close  == /\ \E m \in Managers : close(m)
          /\ UNCHANGED <<menu, pos>>

Next == Add \/ Update \/ Delete \/ Get \/ GetAll \/ Close

Spec == Init /\ [][Next]_vars

(* ------------------------- the codec on its own ------------------------ *)
\* the text fields of a record and the width of their 's' code
TextKeys(m) ==
  CASE m = "car"      -> {"Model", "LicensePlate"}
    [] m = "customer" -> {"Name", "Phone"}
    [] m = "rental"   -> {}

TextWidth(k) ==
  CASE k = "Model"        -> 30
    [] k = "LicensePlate" -> 10
    [] k = "Name"         -> 50
    [] k = "Phone"        -> 15

\* texts of at most w bytes: "", "T", " T ", "T A", "\tT\n", two Thai
\* letters, "e" with acute, "T\0A", "T\0", w letters, Thai letters filling w
CodecTexts(w) ==
  { << >>, <<84>>, <<32, 84, 32>>, <<84, 32, 65>>, <<9, 84, 10>>,
    <<3619, 3606>>, <<233>>, <<84, 0, 65>>, <<84, 0>>,
    [i \in 1..w |-> 65], [i \in 1..(w \div 3) |-> 3619] }

CodecInts == {-2147483647 - 1, -1, 0, 1, 1012025, 2147483647}
CodecRates == {0, 1200, -1}

CodecValues(m) ==
  CASE m = "car" ->
         [IsActive : BOOLEAN, ID : CodecInts,
          Model : CodecTexts(30), LicensePlate : CodecTexts(10),
          DailyRate : CodecRates]
    [] m = "customer" ->
         [IsActive : BOOLEAN, ID : CodecInts,
          Name : CodecTexts(50), Phone : CodecTexts(15)]
    [] m = "rental" ->
         [IsActive : BOOLEAN, ID : CodecInts,
          CustomerID : {1, 2147483647}, CarID : {1, -1},
          StartDate : {1012025}, EndDate : {0, 3012025},
          TotalPrice : CodecRates]

\* a value v handed to a manager of kind m, not yet packed
Given(m, v) == Call("value", m, v["ID"], v, << >>, -1)

\* self._unpack_record(self._pack_record(v)) on a manager of kind m
pack_unpack(m, v) ==
  /\ last = Given(m, v)
  /\ ~PackRaises(m, v)
  /\ \E packed \in {_pack_record(m, v)} :
       last' = Call("_pack_record", m, v["ID"], v,
                    << packed, _unpack_record(m, packed) >>, -1)
  /\ UNCHANGED <<files, handle, hist, menu, pos>>

\* no manager constructed, no file touched, one value to pack
InitCodec ==
  /\ files = [m \in Managers |-> << >>]
  /\ handle = [m \in Managers |-> "none"]
  /\ \E m \in Managers : \E v \in CodecValues(m) : last = Given(m, v)
  /\ hist = << >>
  /\ menu = NoMenu
  /\ pos = [m \in Managers |-> 0]

PackUnpack == \E m \in Managers : \E v \in CodecValues(m) : pack_unpack(m, v)

NextCodec == PackUnpack

SpecCodec == InitCodec /\ [][NextCodec]_vars

(* ------------------------- values at the edge of the format ------------ *)
EdgeIds == {1, 2}

Rep(c, n) == [i \in 1..n |-> c]

Without(d, k) == [x \in (DOMAIN d) \ {k} |-> d[x]]

\* records handed to add_record: with IsActive False; with text padded by
\* blanks (" T ", "ABCDEFGHI " of full width, " S "); with text longer than
\* its width (four times U+0E23, 12 bytes for a plate; sixteen digits);
\* without a key _pack_record subscripts; with a lone surrogate (U+D800) as
\* text
EdgeAddInputs(m) ==
  CASE m = "car" ->
         { DictUpdate(Sample(m, 1), [IsActive |-> FALSE]),
           [ID |-> 2, Model |-> <<32, 84, 32>>,
            LicensePlate |-> <<65, 66, 67, 68, 69, 70, 71, 72, 73, 32>>,
            DailyRate |-> 1200],
           [ID |-> 1, Model |-> <<84>>,
            LicensePlate |-> Rep(3619, 4), DailyRate |-> 1200],
           Without(Sample(m, 1), "Model"),
           Without(Sample(m, 2), "DailyRate"),
           [ID |-> 2, Model |-> <<55296>>, LicensePlate |-> <<65>>,
            DailyRate |-> 1200] }
    [] m = "customer" ->
         { DictUpdate(Sample(m, 1), [IsActive |-> FALSE]),
           [ID |-> 2, Name |-> <<32, 83, 32>>, Phone |-> <<48>>],
           [ID |-> 1, Name |-> <<83>>, Phone |-> Rep(48, 16)],
           Without(Sample(m, 1), "Phone") }
    [] m = "rental" ->
         { DictUpdate(Sample(m, 1), [IsActive |-> FALSE]),
           Without(Sample(m, 2), "EndDate"),
           Without(Sample(m, 1), "TotalPrice") }

\* fields handed to update_record: another ID, IsActive False and one
\* payload field (a text of 11 or 16 bytes); the IsRented mark of the
\* rental menu
EdgeUpdateInputs(m) ==
  CASE m = "car" ->
         { [ID |-> 2, IsActive |-> FALSE, LicensePlate |-> Rep(66, 11)],
           [IsRented |-> TRUE] }
    [] m = "customer" ->
         { [ID |-> 2, IsActive |-> FALSE, Phone |-> Rep(57, 16)] }
    [] m = "rental" ->
         { [ID |-> 2, IsActive |-> FALSE, TotalPrice |-> 1200] }

\* one manager constructed on a file that did not exist
InitEdge ==
  /\ files = [m \in Managers |-> << >>]
  /\ \E m0 \in Managers :
       handle = [m \in Managers |-> IF m = m0 THEN "open" ELSE "none"]
  /\ last = NoCall
  /\ hist = Forgotten
  /\ menu = NoMenu
  /\ pos = [m \in Managers |-> 0]

EdgeAdd    == /\ \E m \in Managers : \E data \in EdgeAddInputs(m) :
                   add_record(m, data)
              /\ UNCHANGED <<menu, pos>>
EdgeUpdate == /\ \E m \in Managers : \E id \in EdgeIds :
                 \E nd \in EdgeUpdateInputs(m) : update_record(m, id, nd)
              /\ UNCHANGED <<menu, pos>>
EdgeDelete == /\ \E m \in Managers : \E id \in EdgeIds :
                   delete_record(m, id)
              /\ UNCHANGED <<menu, pos>>
EdgeGet    == /\ \E m \in Managers : \E id \in EdgeIds :
                   call_get_record_by_id(m, id)
              /\ UNCHANGED <<menu, pos>>

NextEdge == EdgeAdd \/ EdgeUpdate \/ EdgeDelete \/ EdgeGet

SpecEdge == InitEdge /\ [][NextEdge]_vars

(* ------------------------- a write cut short --------------------------- *)
\* how many bytes of a record reached the file before the process died: the
\* flag alone, the flag and the ID, all but the last byte
TornLengths(m) == {1, 5, record_size(m) - 1}

\* the record whose write is cut short
TornInputs(m) == {Sample(m, 2)}

\* add_record(data) interrupted in its write at the end of the file: with
\* no inactive slot the record goes to SEEK_END, n of its bytes arrive, and
\* the next run opens the file as it was left (one such crash in the life
\* of a file: it strikes a file of whole slots)
torn_append(m, data, n) ==
  LET d      == ForceActive(data)
      f      == files[m]
      offset == AddOffset(m, f)
  IN  /\ handle[m] = "open"
      /\ ~PackRaises(m, d)
      /\ offset = Len(f)
      /\ Len(f) % record_size(m) = 0
      /\ Len(f) < MaxSlots * record_size(m)
      /\ files' = [files EXCEPT ![m] =
                     WriteAt(f, offset, SubSeq(_pack_record(m, d), 1, n))]
      /\ last' = Raise("add_record", m, data["ID"], data, "killed")
      /\ UNCHANGED <<handle, hist>>

\* one manager constructed on a file that did not exist
InitCrash ==
  /\ files = [m \in Managers |-> << >>]
  /\ \E m0 \in Managers :
       handle = [m \in Managers |-> IF m = m0 THEN "open" ELSE "none"]
  /\ last = NoCall
  /\ hist = Forgotten
  /\ menu = NoMenu
  /\ pos = [m \in Managers |-> 0]

CrashAdd    == /\ \E m \in Managers : \E data \in AddInputs(m) :
                    add_record(m, data)
               /\ UNCHANGED <<menu, pos>>
CrashTorn   == /\ \E m \in Managers : \E data \in TornInputs(m) :
                    \E n \in TornLengths(m) : torn_append(m, data, n)
               /\ UNCHANGED <<menu, pos>>
CrashDelete == /\ \E m \in Managers : \E id \in Ids : delete_record(m, id)
               /\ UNCHANGED <<menu, pos>>
CrashGet    == /\ \E m \in Managers : \E id \in Ids :
                    call_get_record_by_id(m, id)
               /\ UNCHANGED <<menu, pos>>
CrashGetAll == /\ \E m \in Managers : call_get_all_records(m)
               /\ UNCHANGED <<menu, pos>>

NextCrash == CrashAdd \/ CrashTorn \/ CrashDelete \/ CrashGet \/ CrashGetAll

SpecCrash == InitCrash /\ [][NextCrash]_vars

(* ------------------------- the position of the file object ------------- *)
\* self.file.seek(0, os.SEEK_SET) at the head of add_record,
\* get_record_by_id and get_all_records: the position after it
rewind(p) == 0

\* the position after read() calls from start have met the end of the file
AtEnd(f, start) == IF start > Len(f) THEN start ELSE Len(f)

\* the methods of a manager of kind m on file content f with the file
\* object at position p: what is returned, the content and the position
\* left, and the offset of the slot written or found (-1 when there is none)
get_record_by_id_at(m, f, p, record_id) ==
  LET result == GetScan(m, f, record_id, rewind(p))
  IN  [ret  |-> result,
       file |-> f,
       pos  |-> IF Len(result) = 0 THEN AtEnd(f, rewind(p))
                ELSE result[2] + record_size(m),
       offset |-> IF Len(result) = 0 THEN -1 ELSE result[2]]

get_all_records_at(m, f, p) ==
  [ret  |-> GetAllScan(m, f, rewind(p)),
   file |-> f,
   pos  |-> AtEnd(f, rewind(p)),
   offset |-> -1]

\* (variant: add_record without its seek, the scan for a free slot goes on
\* from where the file object stands)
add_record_at_NoSeek(m, f, p, data) ==
  LET offset == AddScan(f, record_size(m), p)
  IN  [ret  |-> << offset >>,
       file |-> WriteAt(f, offset, _pack_record(m, ForceActive(data))),
       pos  |-> offset + record_size(m),
       offset |-> offset]

add_record_at(m, f, p, data) ==
  LET offset == AddScan(f, record_size(m), rewind(p))
  IN  [ret  |-> << offset >>,
       file |-> WriteAt(f, offset, _pack_record(m, ForceActive(data))),
       pos  |-> offset + record_size(m),
       offset |-> offset]

update_record_at(m, f, p, record_id, new_data) ==
  LET got == get_record_by_id_at(m, f, p, record_id)
  IN  IF Len(got.ret) = 0
      THEN [ret |-> << FALSE >>, file |-> f, pos |-> got.pos,
            offset |-> -1]
      ELSE [ret  |-> << TRUE >>,
            file |-> WriteAt(f, got.ret[2],
                             _pack_record(m, UpdatedData(got.ret[1],
                                                         record_id,
                                                         new_data))),
            pos  |-> got.ret[2] + record_size(m),
            offset |-> got.ret[2]]

delete_record_at(m, f, p, record_id) ==
  LET got == get_record_by_id_at(m, f, p, record_id)
  IN  IF Len(got.ret) = 0
      THEN [ret |-> << FALSE >>, file |-> f, pos |-> got.pos,
            offset |-> -1]
      ELSE [ret  |-> << TRUE >>,
            file |-> WriteAt(f, got.ret[2], DeletedFlagBytes(m)),
            pos  |-> got.ret[2] + 1,
            offset |-> got.ret[2]]

\* a call of method op on the open manager m that came to out
performed(op, m, id, arg, out) ==
  /\ handle[m] = "open"
  /\ files' = [files EXCEPT ![m] = out.file]
  /\ pos' = [pos EXCEPT ![m] = out.pos]
  /\ last' = Call(op, m, id, arg, out.ret, out.offset)
  /\ UNCHANGED <<handle, hist, menu>>

\* the RentalManager constructed on a file that did not exist; the methods
\* followed are those of FileManager, which every kind of manager inherits
InitReads ==
  /\ files = [m \in Managers |-> << >>]
  /\ handle = [m \in Managers |-> IF m = "rental" THEN "open" ELSE "none"]
  /\ last = NoCall
  /\ hist = Forgotten
  /\ menu = NoMenu
  /\ pos = [m \in Managers |-> 0]

ReadsAdd ==
  \E m \in Managers : \E data \in AddInputs(m) :
    \E out \in {add_record_at(m, files[m], pos[m], data)} :
      /\ Len(out.file) <= MaxSlots * record_size(m)
      /\ performed("add_record", m, data["ID"], data, out)
ReadsUpdate ==
  \E m \in Managers : \E id \in Ids : \E nd \in UpdateInputs(m) :
    performed("update_record", m, id, nd,
              update_record_at(m, files[m], pos[m], id, nd))
ReadsDelete ==
  \E m \in Managers : \E id \in Ids :
    performed("delete_record", m, id, EmptyDict,
              delete_record_at(m, files[m], pos[m], id))
ReadsGet ==
  \E m \in Managers : \E id \in Ids :
    performed("get_record_by_id", m, id, EmptyDict,
              get_record_by_id_at(m, files[m], pos[m], id))
ReadsGetAll ==
  \E m \in Managers :
    performed("get_all_records", m, 0, EmptyDict,
              get_all_records_at(m, files[m], pos[m]))

NextReads ==
  ReadsAdd \/ ReadsUpdate \/ ReadsDelete \/ ReadsGet \/ ReadsGetAll

SpecReads == InitReads /\ [][NextReads]_vars

(* ------------------------- dates typed at the prompt ------------------- *)
\* the digit zero of every script of decimal digits (Unicode 14.0.0, category
\* Nd): the digits 0 to 9 of a script are ten code points in a row
DecimalZeros ==
  { 48, 1632, 1776, 1984, 2406, 2534, 2662, 2790, 2918, 3046, 3174, 3302,
    3430, 3558, 3664, 3792, 3872, 4160, 4240, 6112, 6160, 6470, 6608, 6784,
    6800, 6992, 7088, 7232, 7248, 42528, 43216, 43264, 43472, 43504, 43600,
    44016, 65296, 66720, 68912, 69734, 69872, 69942, 70096, 70384, 70736,
    70864, 71248, 71360, 71472, 71904, 72016, 72784, 73040, 73120, 92768,
    92864, 93008, 120782, 120792, 120802, 120812, 120822, 123200, 123632,
    125264, 130032 }

\* str.isdecimal() of one character; \d of a str pattern takes the same
IsDecimal(c) == \E z \in DecimalZeros : c \in z..(z + 9)

\* the digits that are no decimal digits (superscripts, circled digits ...)
IsOtherDigit(c) ==
  \/ c \in 178..179
  \/ c = 185
  \/ c \in 4969..4977
  \/ c = 6618
  \/ c = 8304
  \/ c \in 8308..8313
  \/ c \in 8320..8329
  \/ c \in 9312..9320
  \/ c \in 9332..9340
  \/ c \in 9352..9360
  \/ c = 9450
  \/ c \in 9461..9469
  \/ c = 9471
  \/ c \in 10102..10110
  \/ c \in 10112..10120
  \/ c \in 10122..10130
  \/ c \in 68160..68163
  \/ c \in 69216..69224
  \/ c \in 69714..69722
  \/ c \in 127232..127242

\* str.isdigit() of one character
IsDigit(c) == IsDecimal(c) \/ IsOtherDigit(c)

\* int() of one decimal digit; of another character it raises ValueError
\* and there is no value
DigitValue(c) == c - (CHOOSE z \in DecimalZeros : c \in z..(z + 9))
isdigit(s) == s # << >> /\ \A i \in 1..Len(s) : IsDigit(s[i])

\* int(s) of a string of digits
RECURSIVE int_of(_)
int_of(s) ==
  IF s = << >> THEN 0
  ELSE 10 * int_of(SubSeq(s, 1, Len(s) - 1)) + DigitValue(s[Len(s)])

\* str(n).zfill(8) for 0 <= n < 10^8
RECURSIVE Pow10(_)
Pow10(k) == IF k = 0 THEN 1 ELSE 10 * Pow10(k - 1)
zfill8(n) == [i \in 1..8 |-> 48 + ((n \div Pow10(8 - i)) % 10)]

IsLeap(y) == (y % 4 = 0 /\ y % 100 # 0) \/ y % 400 = 0
DaysInMonth(y, mo) ==
  CASE mo = 2 -> IF IsLeap(y) THEN 29 ELSE 28
    [] mo \in {4, 6, 9, 11} -> 30
    [] OTHER -> 31

\* datetime.datetime.strptime(s, '%d%m%Y') of 8 digits: << >> when it raises
\* ValueError, else <<year, month, day>>. %d is 3[0-1]|[1-2]\d|0[1-9], %m is
\* 1[0-2]|0[1-9], %Y is \d\d\d\d, where \d takes the decimal digits of every
\* script and the other digits no; a one-digit day or month leaves data
\* unconverted.
strptime(s) ==
  LET dOk == \/ s[1] = 51 /\ s[2] \in {48, 49}
             \/ s[1] \in {49, 50} /\ IsDecimal(s[2])
             \/ s[1] = 48 /\ s[2] \in 49..57
      mOk == \/ s[3] = 49 /\ s[4] \in 48..50
             \/ s[3] = 48 /\ s[4] \in 49..57
      yOk == \A i \in 5..8 : IsDecimal(s[i])
      d   == int_of(SubSeq(s, 1, 2))
      mo  == int_of(SubSeq(s, 3, 4))
      y   == int_of(SubSeq(s, 5, 8))
  IN  IF dOk /\ mOk /\ yOk /\ y >= 1 /\ d <= DaysInMonth(y, mo)
      THEN << y, mo, d >> ELSE << >>

\* date.toordinal(): days since 31 December of year 0
DaysBeforeYear(y) ==
  (y - 1) * 365 + (y - 1) \div 4 - (y - 1) \div 100 + (y - 1) \div 400
RECURSIVE DaysBeforeMonth(_, _)
DaysBeforeMonth(y, mo) ==
  IF mo = 1 THEN 0
  ELSE DaysBeforeMonth(y, mo - 1) + DaysInMonth(y, mo - 1)
toordinal(date) ==
  DaysBeforeYear(date[1]) + DaysBeforeMonth(date[1], date[2]) + date[3]

\* (variant: every string of digits is taken as a date)
get_date_input_AnyDigits(typed) ==
  IF isdigit(strip(typed)) THEN << int_of(strip(typed)) >> ELSE << >>

\* one round of the loop of get_date_input on the line typed: << >> when the
\* line is refused and the prompt is shown again, else << the int returned >>
get_date_input(typed) ==
  LET date_str == strip(typed)
  IN  IF Len(date_str) = 8 /\ isdigit(date_str)
      THEN IF strptime(date_str) # << >> THEN << int_of(date_str) >>
           ELSE << >>
      ELSE << >>

\* (variant: the + 1 left out, the last day is not charged)
total_price_Exclusive(daily_rate, start_date_int, end_date_int) ==
  LET start_date_obj == strptime(zfill8(start_date_int))
      end_date_obj   == strptime(zfill8(end_date_int))
  IN  IF start_date_obj = << >> \/ end_date_obj = << >> THEN daily_rate
      ELSE daily_rate * (toordinal(end_date_obj) - toordinal(start_date_obj))

\* total_price of run_rental_menu choice A (the except ValueError branch
\* charges one day)
total_price(daily_rate, start_date_int, end_date_int) ==
  LET start_date_obj == strptime(zfill8(start_date_int))
      end_date_obj   == strptime(zfill8(end_date_int))
  IN  IF start_date_obj = << >> \/ end_date_obj = << >> THEN daily_rate
      ELSE LET days == (toordinal(end_date_obj) - toordinal(start_date_obj))
                         + 1
           IN  daily_rate * days

(* ------------------------- 5. menus and 6. main ------------------------ *)
\* the file a FileManager method leaves behind
AddedFile(m, f, data) ==
  WriteAt(f, AddOffset(m, f),
          _pack_record(m, DictUpdate(data, [IsActive |-> TRUE])))
UpdatedFile(m, f, record_id, new_data) ==
  LET result == get_record_by_id(m, f, record_id)
  IN  IF Len(result) = 0 THEN f
      ELSE WriteAt(f, result[2],
                   _pack_record(m, UpdatedData(result[1], record_id,
                                               new_data)))
DeletedFile(m, f, record_id) ==
  LET result == get_record_by_id(m, f, record_id)
  IN  IF Len(result) = 0 THEN f
      ELSE WriteAt(f, result[2], DeletedFlagBytes(m))

\* the two sides of the merge conflict left in main
Sides == {"HEAD", "69bfc03"}

\* menu.pc     : "main" at a menu prompt, "start_date" and "end_date" at the
\*               prompts of get_date_input in choice A of the rental menu,
\*               "closing" between the two calls of choice D,
\*               "exited" when main has returned
\* menu.out    : what the last menu choice came to
\* menu.typed  : the last line typed at a date prompt
\* menu.closes : how often close was called on each manager
\* the other fields are the locals of run_rental_menu
MenuAt(side) ==
  [pc |-> "main", side |-> side, out |-> "none", typed |-> << >>,
   rental_id |-> 0, cust_id |-> 0, car_id |-> 0, daily_rate |-> 0,
   start_date_int |-> 0, closes |-> [m \in Managers |-> 0]]

\* ids typed at the prompts of get_int_input
MainIds == {1}
\* lines typed at the date prompts: "01012025", " 03012025 ", "31122024",
\* "0101" followed by Thai digits 2025, "3101225", "31022025"
StartLines ==
  { <<48, 49, 48, 49, 50, 48, 50, 53>>,
    <<48, 49, 48, 49, 3666, 3664, 3666, 3669>>,
    <<51, 49, 48, 49, 50, 50, 53>>,
    <<51, 49, 48, 50, 50, 48, 50, 53>> }
EndLines ==
  { <<32, 48, 51, 48, 49, 50, 48, 50, 53, 32>>,
    <<51, 49, 49, 50, 50, 48, 50, 52>>,
    <<51, 49, 48, 49, 50, 50, 53>>,
    <<51, 49, 48, 50, 50, 48, 50, 53>> }

SlotCap(m) == IF m = "rental" THEN MaxSlots ELSE MaxMainSlots
HasRoom(m, f) ==
  AddOffset(m, f) < Len(f) \/ Len(f) < SlotCap(m) * record_size(m)

CloseCall(m) == Call("close", m, 0, EmptyDict, << >>, -1)

\* car_mgr.close(); cust_mgr.close(); rental_mgr.close()
\* (each manager is open here: main calls close nowhere else)
close_all ==
  /\ \A m \in Managers : ~FileRaises(handle[m])
  /\ handle' = [m \in Managers |-> "closed"]
  /\ last' = CloseCall("rental")

\* an exception reaches the try of main: HEAD prints it and main returns;
\* 69bfc03 prints it and closes the three managers in its finally block.
\* locals is the menu record as the choice that raised had left it
main_except(locals, raised) ==
  /\ IF menu.side = "HEAD"
     THEN /\ menu' = [locals EXCEPT !.pc = "exited", !.out = "fatal"]
          /\ last' = raised
          /\ UNCHANGED handle
     ELSE /\ close_all
          /\ menu' = [locals EXCEPT !.pc = "exited", !.out = "fatal",
                        !.closes = [m \in Managers |-> @[m] + 1]]
  /\ UNCHANGED <<files, hist>>

\* main menu choice X: HEAD closes the three managers in the branch and
\* breaks; 69bfc03 breaks and closes them in its finally block
main_exit ==
  /\ menu.pc = "main"
  /\ close_all
  /\ menu' = [menu EXCEPT !.pc = "exited", !.out = "bye",
                !.closes = [m \in Managers |-> @[m] + 1]]
  /\ UNCHANGED <<files, hist>>

\* input() raises EOFError at a prompt. Choice A of the rental menu reads
\* rental_id, cust_id and car_id at three prompts before its first lookup:
\* when the input ends at the second prompt rental_id is assigned, at the
\* third rental_id and cust_id are; at every other prompt the locals are as
\* the step before left them
input_eof ==
  LET read == IF menu.pc = "main"
              THEN {menu}
                   \cup {[menu EXCEPT !.rental_id = r] : r \in MainIds}
                   \cup {[menu EXCEPT !.rental_id = x[1], !.cust_id = x[2]] :
                            x \in MainIds \X MainIds}
              ELSE {menu}
  IN  /\ menu.pc \in {"main", "start_date", "end_date"}
      /\ \E locals \in read : main_except(locals, last)

\* run_car_menu and run_customer_menu choice A
menu_add(m, data) ==
  /\ menu.pc = "main"
  /\ ~PackRaises(m, DictUpdate(data, [IsActive |-> TRUE]))
  /\ HasRoom(m, files[m])
  /\ files' = [files EXCEPT ![m] = AddedFile(m, files[m], data)]
  /\ last' = Call("add_record", m, data["ID"], data,
                  << AddOffset(m, files[m]) >>, AddOffset(m, files[m]))
  /\ hist' = Remember(hist, last')
  /\ menu' = [menu EXCEPT !.out = "none"]
  /\ UNCHANGED handle

\* (variant: the delete is refused while an active rental names the record)
menu_delete_Guarded(m, record_id) ==
  LET result  == get_record_by_id(m, files[m], record_id)
      rentals == get_all_records("rental", files["rental"])
      key     == IF m = "car" THEN "CarID" ELSE "CustomerID"
      free    == \A k \in 1..Len(rentals) : rentals[k][key] # record_id
      found   == Len(result) # 0 /\ free
  IN  /\ menu.pc = "main"
      /\ files' = [files EXCEPT ![m] =
                     IF found THEN DeletedFile(m, files[m], record_id)
                     ELSE files[m]]
      /\ last' = Call("delete_record", m, record_id, EmptyDict,
                      << found >>, IF found THEN result[2] ELSE -1)
      /\ hist' = IF found THEN Remember(hist, last') ELSE hist
      /\ menu' = [menu EXCEPT !.out = "none"]
      /\ UNCHANGED handle

\* run_car_menu and run_customer_menu choice D
menu_delete(m, record_id) ==
  LET result == get_record_by_id(m, files[m], record_id)
  IN  /\ menu.pc = "main"
      /\ files' = [files EXCEPT ![m] = DeletedFile(m, files[m], record_id)]
      /\ last' = Call("delete_record", m, record_id, EmptyDict,
                      << Len(result) # 0 >>,
                      IF Len(result) = 0 THEN -1 ELSE result[2])
      /\ hist' = IF Len(result) = 0 THEN hist ELSE Remember(hist, last')
      /\ menu' = [menu EXCEPT !.out = "none"]
      /\ UNCHANGED handle

\* run_car_menu and run_customer_menu choice U
menu_update(m, record_id, new_data) ==
  LET result == get_record_by_id(m, files[m], record_id)
      found  == Len(result) # 0
  IN  /\ menu.pc = "main"
      /\ files' = [files EXCEPT ![m] =
                     UpdatedFile(m, files[m], record_id, new_data)]
      /\ last' = Call("update_record", m, record_id, new_data,
                      << found >>, IF found THEN result[2] ELSE -1)
      /\ hist' = IF found THEN Remember(hist, last') ELSE hist
      /\ menu' = [menu EXCEPT !.out = "none"]
      /\ UNCHANGED handle

\* choice V of the three menus: the records are listed. format_date_display
\* is defined on the HEAD side alone: on 69bfc03 the rental menu raises
\* NameError when it comes to show a rental
menu_view(m) ==
  LET records == get_all_records(m, files[m])
      listed  == Call("get_all_records", m, 0, EmptyDict, records, -1)
  IN  /\ menu.pc = "main"
      /\ IF m = "rental" /\ records # << >> /\ menu.side = "69bfc03"
         THEN main_except(menu, listed)
         ELSE /\ last' = listed
              /\ menu' = [menu EXCEPT !.out = "none"]
              /\ UNCHANGED <<files, handle, hist>>

\* choice S of the three menus: the record of the id typed is shown. The
\* rental menu reads the id into its local rental_id; car_id and cust_id of
\* the two other menus are locals of their own
menu_search(m, record_id) ==
  LET result == get_record_by_id(m, files[m], record_id)
      looked == Call("get_record_by_id", m, record_id, EmptyDict, result,
                     IF Len(result) = 0 THEN -1 ELSE result[2])
      asked  == IF m = "rental" THEN [menu EXCEPT !.rental_id = record_id]
                ELSE menu
  IN  /\ menu.pc = "main"
      /\ IF m = "rental" /\ Len(result) # 0 /\ menu.side = "69bfc03"
         THEN main_except(asked, looked)
         ELSE /\ last' = looked
              /\ menu' = [asked EXCEPT !.out = "none"]
              /\ UNCHANGED <<files, handle, hist>>

\* choices R and L of the rental menu, which the 69bfc03 side alone offers:
\* manager.generate_report is no attribute of RentalManager and
\* generate_rental_detail_report is defined nowhere
RentalReport ==
  /\ menu.pc = "main"
  /\ menu.side = "69bfc03"
  /\ main_except(menu, last)
  /\ UNCHANGED pos

\* the last FileManager call of generate_detailed_summary_report on the
\* HEAD side: car_mgr.get_all_records(), rental_mgr.get_all_records() and,
\* for each car listed that an active rental names, cust_mgr.get_record_by_id
\* of the customer of the last such rental
ReportLastCall ==
  LET cars    == get_all_records("car", files["car"])
      rentals == get_all_records("rental", files["rental"])
      RentOf(car_id) == {k \in 1..Len(rentals) :
                            rentals[k]["CarID"] = car_id}
      rented  == {j \in 1..Len(cars) : RentOf(cars[j]["ID"]) # {}}
  IN  IF rented = {}
      THEN Call("get_all_records", "rental", 0, EmptyDict, rentals, -1)
      ELSE LET j    == CHOOSE x \in rented : \A y \in rented : y <= x
               ks   == RentOf(cars[j]["ID"])
               rent == rentals[CHOOSE x \in ks : \A y \in ks : y <= x]
               cust_result == get_record_by_id("customer",
                                               files["customer"],
                                               rent["CustomerID"])
           IN  Call("get_record_by_id", "customer", rent["CustomerID"],
                    EmptyDict, cust_result,
                    IF Len(cust_result) = 0 THEN -1 ELSE cust_result[2])

\* generate_detailed_summary_report as the 69bfc03 side calls it, with the
\* rental manager for car_mgr and the car manager for rental_mgr, raises
\* KeyError: on 'CarID' when a car is active, on 'DailyRate' when a rental is
ReportRaises ==
  /\ menu.side = "69bfc03"
  /\ \/ get_all_records("car", files["car"]) # << >>
     \/ get_all_records("rental", files["rental"]) # << >>

\* main menu choice R
MainReport ==
  /\ menu.pc = "main"
  /\ IF ReportRaises
     THEN main_except(menu, last)
     ELSE /\ last' = IF menu.side = "HEAD" THEN ReportLastCall
                     ELSE Call("get_all_records", "car", 0, EmptyDict,
                               get_all_records("car", files["car"]), -1)
          /\ menu' = [menu EXCEPT !.out = "report"]
          /\ UNCHANGED <<files, handle, hist>>
  /\ UNCHANGED pos

\* run_rental_menu choice A up to the first date prompt
rental_begin(rental_id, cust_id, car_id) ==
  LET cust_result == get_record_by_id("customer", files["customer"], cust_id)
      car_result  == get_record_by_id("car", files["car"], car_id)
      asked == [menu EXCEPT !.rental_id = rental_id, !.cust_id = cust_id,
                            !.car_id = car_id]
  IN  /\ menu.pc = "main"
      /\ IF Len(cust_result) = 0
         THEN /\ menu' = [asked EXCEPT !.out = "customer_invalid"]
              /\ last' = Call("get_record_by_id", "customer", cust_id,
                              EmptyDict, << >>, -1)
         ELSE IF Len(car_result) = 0
         THEN /\ menu' = [asked EXCEPT !.out = "car_invalid"]
              /\ last' = Call("get_record_by_id", "car", car_id,
                              EmptyDict, << >>, -1)
         ELSE /\ menu' = [asked EXCEPT !.pc = "start_date",
                            !.out = "ask_date",
                            !.daily_rate = car_result[1]["DailyRate"]]
              /\ last' = Call("get_record_by_id", "car", car_id,
                              EmptyDict, car_result, car_result[2])
      /\ UNCHANGED <<files, handle, hist>>

\* run_rental_menu choice A from a line typed at a date prompt on: the line
\* is refused, or it is the start date, or it is the end date and the
\* rental is added and the car updated
rental_date(typed) ==
  LET got == get_date_input(typed)
  IN  /\ menu.pc \in {"start_date", "end_date"}
      /\ IF Len(got) = 0
         THEN /\ menu' = [menu EXCEPT !.out = "date_rejected",
                            !.typed = typed]
              /\ UNCHANGED <<files, handle, last, hist>>
         ELSE IF menu.pc = "start_date"
         THEN /\ menu' = [menu EXCEPT !.pc = "end_date", !.out = "ask_date",
                            !.typed = typed, !.start_date_int = got[1]]
              /\ UNCHANGED <<files, handle, last, hist>>
         ELSE LET rental ==
                    [ID |-> menu.rental_id, CustomerID |-> menu.cust_id,
                     CarID |-> menu.car_id,
                     StartDate |-> menu.start_date_int,
                     EndDate |-> got[1],
                     TotalPrice |-> total_price(menu.daily_rate,
                                                menu.start_date_int, got[1])]
                  car_result ==
                    get_record_by_id("car", files["car"], menu.car_id)
                  car_found == Len(car_result) # 0
                  added ==
                    Call("add_record", "rental", menu.rental_id, rental,
                         << AddOffset("rental", files["rental"]) >>,
                         AddOffset("rental", files["rental"]))
              IN  /\ HasRoom("rental", files["rental"])
                  /\ files' =
                       [files EXCEPT
                          !["rental"] = AddedFile("rental", @, rental),
                          !["car"] = UpdatedFile("car", @, menu.car_id,
                                                 [IsRented |-> TRUE])]
                  /\ last' = Call("update_record", "car", menu.car_id,
                                  [IsRented |-> TRUE], << car_found >>,
                                  IF car_found THEN car_result[2] ELSE -1)
                  /\ hist' = IF car_found
                             THEN Remember(Remember(hist, added), last')
                             ELSE Remember(hist, added)
                  /\ menu' = [menu EXCEPT !.pc = "main",
                                !.out = "rental_created", !.typed = typed]
                  /\ UNCHANGED handle

\* (variant: the car is updated first, the rental left for afterwards)
rental_close_CarFirst(rental_id) ==
  LET result == get_record_by_id("rental", files["rental"], rental_id)
  IN  /\ menu.pc = "main"
      /\ IF Len(result) = 0
         THEN /\ menu' = [menu EXCEPT !.out = "rental_missing"]
              /\ last' = Call("get_record_by_id", "rental", rental_id,
                              EmptyDict, << >>, -1)
              /\ UNCHANGED <<files, hist>>
         ELSE LET car_id == result[1]["CarID"]
              IN  /\ files' = [files EXCEPT !["car"] =
                                 UpdatedFile("car", @, car_id,
                                             [IsRented |-> FALSE])]
                  /\ \A car_result \in {get_record_by_id(
                                           "car", files["car"], car_id)} :
                       last' = Call("update_record", "car", car_id,
                                    [IsRented |-> FALSE],
                                    << Len(car_result) # 0 >>,
                                    IF Len(car_result) # 0
                                    THEN car_result[2] ELSE -1)
                  /\ hist' = Remember(hist, last')
                  /\ menu' = [menu EXCEPT !.pc = "closing",
                                !.out = "rental_tombstoned",
                                !.rental_id = rental_id,
                                !.car_id = car_id]
      /\ UNCHANGED handle

\* run_rental_menu choice D, up to the return of manager.delete_record
rental_close(rental_id) ==
  LET result == get_record_by_id("rental", files["rental"], rental_id)
  IN  /\ menu.pc = "main"
      /\ IF Len(result) = 0
         THEN /\ menu' = [menu EXCEPT !.out = "rental_missing"]
              /\ last' = Call("get_record_by_id", "rental", rental_id,
                              EmptyDict, << >>, -1)
              /\ UNCHANGED <<files, hist>>
         ELSE LET car_id == result[1]["CarID"]
              IN  /\ files' = [files EXCEPT !["rental"] =
                                 DeletedFile("rental", @, rental_id)]
                  /\ last' = Call("delete_record", "rental", rental_id,
                                  EmptyDict, << TRUE >>, result[2])
                  /\ hist' = Remember(hist, last')
                  /\ menu' = [menu EXCEPT !.pc = "closing",
                                !.out = "rental_tombstoned",
                                !.rental_id = rental_id,
                                !.car_id = car_id]
      /\ UNCHANGED handle

\* run_rental_menu choice D, after delete_record returned True:
\* car_mgr.update_record(car_id, {'IsRented': False})
rental_close_car ==
  LET car_result == get_record_by_id("car", files["car"], menu.car_id)
      car_found  == Len(car_result) # 0
  IN
  /\ menu.pc = "closing"
  /\ files' = [files EXCEPT !["car"] =
                 UpdatedFile("car", @, menu.car_id, [IsRented |-> FALSE])]
  /\ last' = Call("update_record", "car", menu.car_id,
                  [IsRented |-> FALSE], << car_found >>,
                  IF car_found THEN car_result[2] ELSE -1)
  /\ hist' = IF car_found THEN Remember(hist, last') ELSE hist
  /\ menu' = [menu EXCEPT !.pc = "main", !.out = "rental_closed"]
  /\ UNCHANGED handle

\* main on files that do not exist yet: the three managers constructed
InitMain ==
  /\ files = [m \in Managers |-> << >>]
  /\ handle = [m \in Managers |-> "open"]
  /\ last = NoCall
  /\ hist = Forgotten
  /\ \E side \in Sides : menu = MenuAt(side)
  /\ pos = [m \in Managers |-> 0]

CarAdd      == /\ \E id \in MainIds : menu_add("car", Sample("car", id))
               /\ UNCHANGED pos
CarDelete   == /\ \E id \in MainIds : menu_delete("car", id)
               /\ UNCHANGED pos
CustomerAdd == /\ \E id \in MainIds :
                    menu_add("customer", Sample("customer", id))
               /\ UNCHANGED pos
CustomerDelete == /\ \E id \in MainIds : menu_delete("customer", id)
                  /\ UNCHANGED pos
CarUpdate   == /\ \E id \in MainIds : \E new_data \in UpdateInputs("car") :
                    menu_update("car", id, new_data)
               /\ UNCHANGED pos
CustomerUpdate == /\ \E id \in MainIds :
                       \E new_data \in UpdateInputs("customer") :
                         menu_update("customer", id, new_data)
                  /\ UNCHANGED pos
MenuView    == /\ \E m \in Managers : menu_view(m)
               /\ UNCHANGED pos
MenuSearch  == /\ \E m \in Managers : \E id \in MainIds : menu_search(m, id)
               /\ UNCHANGED pos
RentalBegin == /\ \E rental_id, cust_id, car_id \in MainIds :
                    rental_begin(rental_id, cust_id, car_id)
               /\ UNCHANGED pos
RentalDate  == /\ \E typed \in StartLines \cup EndLines :
                    /\ menu.pc = "start_date" => typed \in StartLines
                    /\ menu.pc = "end_date" => typed \in EndLines
                    /\ rental_date(typed)
               /\ UNCHANGED pos
RentalClose == /\ \E rental_id \in MainIds : rental_close(rental_id)
               /\ UNCHANGED pos
RentalCloseCar == rental_close_car /\ UNCHANGED pos
MainExit    == main_exit /\ UNCHANGED pos
InputEOF    == input_eof /\ UNCHANGED pos

NextMain ==
  \/ CarAdd \/ CarUpdate \/ CarDelete
  \/ CustomerAdd \/ CustomerUpdate \/ CustomerDelete
  \/ MenuView \/ MenuSearch \/ RentalReport \/ MainReport
  \/ RentalBegin \/ RentalDate \/ RentalClose \/ RentalCloseCar
  \/ MainExit \/ InputEOF

SpecMain == InitMain /\ [][NextMain]_vars

(* ------------------------- reading a file slot by slot ----------------- *)
\* complete slots of a file, numbered from 0
NumSlots(m, f) == Len(f) \div record_size(m)
SlotIdx(m, f) == 0..(NumSlots(m, f) - 1)
SlotBytes(m, f, i) ==
  SubSeq(f, i * record_size(m) + 1, (i + 1) * record_size(m))
SlotRec(m, f, i) == _unpack_record(m, SlotBytes(m, f, i))
SlotActive(m, f, i) == f[i * record_size(m) + 1] # 0
FreeSlots(m, f) == {i \in SlotIdx(m, f) : ~SlotActive(m, f, i)}
\* the ID field is the 4 bytes after the flag in all three formats
SlotId(m, f, i) ==
  UnpackInt32(SubSeq(f, i * record_size(m) + 2, i * record_size(m) + 5))
ActiveWithId(m, f, id) ==
  {i \in SlotIdx(m, f) : SlotActive(m, f, i) /\ SlotId(m, f, i) = id}
Lowest(S) == CHOOSE i \in S : \A j \in S : i <= j

\* the step is a call of that method
AddStep ==
  last'.op = "add_record" /\ last'.exc = "none" /\ last' # last
UpdateOkStep ==
  /\ last'.op = "update_record" /\ last'.ret = << TRUE >>
  /\ <<last, hist>>' # <<last, hist>>
DeleteOkStep ==
  /\ last'.op = "delete_record" /\ last'.ret = << TRUE >>
  /\ <<last, hist>>' # <<last, hist>>
AfterDeleteOk == last.op = "delete_record" /\ last.ret = << TRUE >>

\* the calls of hist made on manager m, and the add_record calls among them
IsAdd(c) == c.op = "add_record"
HistOf(m) == SelectSeq(hist, LAMBDA c : c.m = m)
AddsOf(m) == SelectSeq(HistOf(m), IsAdd)

(* ------------------------- claims -------------------------------------- *)
\* C1: add_record writes the whole record into the inactive slot of lowest
\* offset and returns that offset; with no inactive slot it appends one slot
\* at the end of the file and returns the former file length.
C1_FirstFit ==
  [][AddStep =>
       LET m      == last'.m
           f      == files[m]
           g      == files'[m]
           rs     == record_size(m)
           packed == _pack_record(m, DictUpdate(last'.arg,
                                                [IsActive |-> TRUE]))
       IN  IF FreeSlots(m, f) # {}
           THEN LET k == Lowest(FreeSlots(m, f))
                IN  /\ last'.ret = << k * rs >>
                    /\ Len(g) = Len(f)
                    /\ SlotBytes(m, g, k) = packed
                    /\ \A i \in SlotIdx(m, f) \ {k} :
                         SlotBytes(m, g, i) = SlotBytes(m, f, i)
           ELSE /\ last'.ret = << Len(f) >>
                /\ g = f \o packed]_vars

\* C1 witness: an add reused slot 0 while slot 1 was inactive too
C1_Witness ==
  \E m \in Managers :
    /\ last.op = "add_record" /\ last.m = m /\ last.offset = 0
    /\ NumSlots(m, files[m]) = 2
    /\ ~SlotActive(m, files[m], 1)
    /\ SlotActive(m, files[m], 0)

\* C2 (as claimed): after a successful delete of the record at offset K the
\* next add_record returns K.
C2_ReuseSameOffset ==
  [][(AfterDeleteOk /\ AddStep) => last'.ret = << last.offset >>]_vars

\* C2 (amended): after a successful delete of the record at offset K the
\* next add_record returns the lowest inactive offset, which is at most K
\* and is K when no slot below K was inactive; the file does not grow.
C2_ReuseLowest ==
  [][(AfterDeleteOk /\ AddStep) =>
       LET m  == last.m
           f  == files[m]
           K  == last.offset
       IN  /\ last'.m = m
           /\ last'.ret[1] <= K
           /\ last'.ret[1] = Lowest(FreeSlots(m, f)) * record_size(m)
           /\ Len(files'[m]) = Len(f)
           /\ (\A i \in FreeSlots(m, f) : i * record_size(m) >= K)
                => last'.ret = << K >>]_vars

\* C2 witness: add, delete, add, the second add landing where the delete was
C2_Witness ==
  /\ Len(hist) = 3 /\ hist # Forgotten
  /\ hist[2].op = "delete_record" /\ hist[2].ret = << TRUE >>
  /\ hist[3].op = "add_record" /\ hist[3].ret = << hist[2].offset >>
  /\ last = hist[3]

\* C3: from an empty file, with no record deleted so far, the i-th add_record
\* (i = 0..N-1) returned i * record_size and the file is N * record_size long.
C3_AppendGrowth ==
  \A m \in Managers :
    (hist # Forgotten /\ \A j \in 1..Len(hist) : hist[j].op # "delete_record")
      => /\ \A i \in 1..Len(AddsOf(m)) :
              AddsOf(m)[i].ret = << (i - 1) * record_size(m) >>
         /\ Len(files[m]) = Len(AddsOf(m)) * record_size(m)

\* C3 witness: MaxSlots adds and no delete
C3_Witness ==
  \E m \in Managers :
    /\ hist # Forgotten
    /\ \A j \in 1..Len(hist) : hist[j].op # "delete_record"
    /\ Len(AddsOf(m)) = MaxSlots
    /\ last.op = "add_record"

\* C4: after delete_record(id) returned True, an immediately following
\* get_record_by_id(id) returns None.
C4_DeleteThenGet ==
  [][(/\ AfterDeleteOk
      /\ last'.op = "get_record_by_id"
      /\ last'.m = last.m /\ last'.id = last.id)
       => Len(last'.ret) = 0]_vars

\* C5: no two active slots of one file hold the same ID.
C5_UniqueActiveIds ==
  \A m \in Managers :
    \A i, j \in SlotIdx(m, files[m]) :
      (i # j /\ SlotActive(m, files[m], i) /\ SlotActive(m, files[m], j))
        => SlotRec(m, files[m], i)["ID"] # SlotRec(m, files[m], j)["ID"]

\* C6: a successful update_record(id, {field: v}) rewrites the record at the
\* offset it had, keeps its ID and IsActive and every field not named, sets
\* the named field, and leaves every other slot and the file length as they
\* were.
C6_UpdateFrame ==
  [][UpdateOkStep =>
       LET m  == last'.m
           f  == files[m]
           g  == files'[m]
           id == last'.id
           nd == last'.arg
       IN  /\ ActiveWithId(m, f, id) # {}
           /\ \A k \in {Lowest(ActiveWithId(m, f, id))} :
              \A old \in {SlotRec(m, f, k)} :
              \A new \in {SlotRec(m, g, k)} :
                /\ last'.offset = k * record_size(m)
                /\ Len(g) = Len(f)
                /\ \A i \in SlotIdx(m, f) \ {k} :
                     SlotBytes(m, g, i) = SlotBytes(m, f, i)
                /\ new["ID"] = old["ID"]
                /\ new["IsActive"] = old["IsActive"]
                /\ DOMAIN new = DOMAIN old
                /\ \A key \in (DOMAIN old) \ (DOMAIN nd) :
                     new[key] = old[key]
                /\ \A key \in (DOMAIN nd) \ {"ID", "IsActive"} :
                     new[key] = nd[key]
                /\ Lowest(ActiveWithId(m, g, id)) = k]_vars

\* C6 witness: an update changed a field of the record in the second slot
C6_Witness ==
  \E m \in Managers :
    /\ last.op = "update_record" /\ last.m = m /\ last.ret = << TRUE >>
    /\ last.offset = record_size(m)
    /\ \E key \in DOMAIN last.arg :
         /\ SlotRec(m, files[m], 1)[key] = last.arg[key]
         /\ SlotRec(m, files[m], 1)[key] # Sample(m, last.id)[key]

\* C7: on an empty file add A (id 1), delete 1, add B (id 2): A landed at
\* offset 0, and afterwards get_record_by_id(2) returns B with offset 0 and
\* get_record_by_id(1) returns None.
C7_Scenario ==
  (/\ hist # Forgotten /\ Len(hist) = 3
   /\ hist[1].op = "add_record" /\ hist[1].id = 1
   /\ hist[2].op = "delete_record" /\ hist[2].id = 1
   /\ hist[3].op = "add_record" /\ hist[3].id = 2
   /\ hist[3].m = hist[1].m /\ hist[2].m = hist[1].m)
    => /\ hist[1].ret = << 0 >>
       /\ (last.op = "get_record_by_id" /\ last.exc = "none"
           /\ last.m = hist[1].m /\ last.id = 2)
            => /\ Len(last.ret) = 2
               /\ last.ret[2] = 0
               /\ last.ret[1] = DictUpdate(hist[3].arg, [IsActive |-> TRUE])
       /\ (last.op = "get_record_by_id" /\ last.exc = "none"
           /\ last.m = hist[1].m /\ last.id = 1)
            => Len(last.ret) = 0

\* C7 witness: the scenario was run and get_record_by_id(2) answered
C7_Witness ==
  /\ hist # Forgotten /\ Len(hist) = 3
  /\ hist[1].op = "add_record" /\ hist[1].id = 1
  /\ hist[2].op = "delete_record" /\ hist[2].id = 1
  /\ hist[3].op = "add_record" /\ hist[3].id = 2
  /\ last.op = "get_record_by_id" /\ last.id = 2 /\ Len(last.ret) = 2

\* C8: the file length is a multiple of record_size, and every offset that
\* add_record or get_record_by_id returned is slot index * record_size.
C8_Aligned ==
  \A m \in Managers :
    /\ Len(files[m]) % record_size(m) = 0
    /\ (last.m = m /\ last.op \in {"add_record", "get_record_by_id"}
        /\ Len(last.ret) # 0)
         => \E i \in SlotIdx(m, files[m]) :
              last.ret[Len(last.ret)] = i * record_size(m)

\* C8 witness: an add returned the offset of the second slot
C8_Witness ==
  \E m \in Managers :
    /\ last.op = "add_record" /\ last.m = m
    /\ last.ret = << record_size(m) >>
    /\ Len(files[m]) = 2 * record_size(m)

\* C9: a record found at offset o stays at offset o (get_record_by_id keeps
\* returning o for its id) through every call that is not the delete of that
\* record; a slot's content changes only by an update or delete of the record
\* in it or by an add into it while it is inactive.
C9_NeverMoves ==
  [][\A m \in Managers :
       LET f == files[m]
           g == files'[m]
       IN  /\ \A id \in Ids :
                (/\ ActiveWithId(m, f, id) # {}
                 /\ ~(DeleteOkStep /\ last'.m = m /\ last'.id = id))
                  => /\ ActiveWithId(m, g, id) # {}
                     /\ Lowest(ActiveWithId(m, g, id))
                          = Lowest(ActiveWithId(m, f, id))
           /\ NumSlots(m, g) >= NumSlots(m, f)
           /\ \A i \in SlotIdx(m, f) :
                \/ SlotBytes(m, g, i) = SlotBytes(m, f, i)
                \/ /\ last'.m = m /\ last'.offset = i * record_size(m)
                   /\ \/ UpdateOkStep /\ SlotActive(m, f, i)
                      \/ DeleteOkStep /\ SlotActive(m, f, i)
                      \/ AddStep /\ ~SlotActive(m, f, i)]_vars

\* C10: get_record_by_id(id) returns the active slot of lowest offset whose
\* ID is id, with that slot's byte offset, and None exactly when no active
\* slot has that ID.
C10_GetLowestActive ==
  (last.op = "get_record_by_id" /\ last.exc = "none") =>
    LET m == last.m
        f == files[m]
        S == ActiveWithId(m, f, last.id)
    IN  IF S = {} THEN Len(last.ret) = 0
        ELSE /\ Len(last.ret) = 2
             /\ last.ret[1] = SlotRec(m, f, Lowest(S))
             /\ last.ret[2] = Lowest(S) * record_size(m)

\* C10 witness: the record was found in the second slot, past an inactive
\* first slot
C10_Witness ==
  \E m \in Managers :
    /\ last.op = "get_record_by_id" /\ last.m = m
    /\ Len(last.ret) = 2 /\ last.ret[2] = record_size(m)
    /\ ~SlotActive(m, files[m], 0)

\* the active slots of a file and the k-th of them by offset (k from 1)
ActiveSlots(m, f) == {i \in SlotIdx(m, f) : SlotActive(m, f, i)}
KthOf(S, k) == CHOOSE i \in S : Cardinality({j \in S : j < i}) = k - 1

\* the step is a call of update_record or delete_record that returned
ChangeStep ==
  /\ last'.op \in {"update_record", "delete_record"}
  /\ last'.exc = "none"
  /\ <<last, hist>>' # <<last, hist>>

\* the step is a call made on a manager that was closed before
CallOnClosed(ops) ==
  /\ last'.op \in ops
  /\ last' # last
  /\ handle[last'.m] = "closed"

\* C11: get_all_records returns the records of exactly the active slots,
\* each once, in ascending offset order, and the record of no inactive slot.
C11_GetAllActive ==
  (last.op = "get_all_records" /\ last.exc = "none") =>
    \A m \in {last.m} : \A f \in {files[m]} : \A A \in {ActiveSlots(m, f)} :
      /\ Len(last.ret) = Cardinality(A)
      /\ \A k \in 1..Len(last.ret) :
           last.ret[k] = SlotRec(m, f, KthOf(A, k))

\* C11 witness: a listing of one record from a file of two slots, the slot
\* at offset 0 inactive
C11_Witness ==
  \E m \in Managers :
    /\ last.op = "get_all_records" /\ last.m = m /\ Len(last.ret) = 1
    /\ NumSlots(m, files[m]) = 2
    /\ ~SlotActive(m, files[m], 0)

\* C12: a delete_record that returns True changes exactly one byte, the flag
\* at the record's offset, from true to false; the ID and payload bytes of
\* the slot, every other slot, the file length and the other files stay.
C12_DeleteOneByte ==
  [][DeleteOkStep =>
       \A m \in {last'.m} : \A f \in {files[m]} : \A g \in {files'[m]} :
         \A K \in {last'.offset} :
           /\ Len(g) = Len(f)
           /\ f[K + 1] # 0 /\ g[K + 1] = 0
           /\ \A i \in 1..Len(f) : i # K + 1 => g[i] = f[i]
           /\ \A o \in Managers \ {m} : files'[o] = files[o]]_vars

\* C12 witness: the second slot of a file was deleted and still holds the
\* deleted ID behind its flag
C12_Witness ==
  \E m \in Managers :
    /\ last.op = "delete_record" /\ last.m = m /\ last.ret = << TRUE >>
    /\ last.offset = record_size(m)
    /\ ~SlotActive(m, files[m], 1)
    /\ SlotId(m, files[m], 1) = last.id
    /\ SlotActive(m, files[m], 0)

\* C13: update_record and delete_record called with an ID that no active slot
\* holds (absent, or held by inactive slots only) return False and leave every
\* file as it was; so a deleted record is neither updated back to active nor
\* deleted a second time.
C13_MissNoChange ==
  [][(ChangeStep /\ ActiveWithId(last'.m, files[last'.m], last'.id) = {})
       => /\ last'.ret = << FALSE >>
          /\ files' = files]_vars

\* C13 witness: an update returned False for an ID that only an inactive slot
\* holds
C13_Witness ==
  \E m \in Managers :
    /\ last.op = "update_record" /\ last.m = m /\ last.ret = << FALSE >>
    /\ \E i \in SlotIdx(m, files[m]) :
         ~SlotActive(m, files[m], i) /\ SlotId(m, files[m], i) = last.id

\* the slots of g that f does not have or has with other bytes
ChangedSlots(m, f, g) ==
  {i \in SlotIdx(m, g) :
     i \notin SlotIdx(m, f) \/ SlotBytes(m, g, i) # SlotBytes(m, f, i)}

\* the step is choice A of the rental menu up to its two lookups
CreationAttempt ==
  /\ menu.pc = "main"
  /\ menu'.pc \in {"main", "start_date"}
  /\ menu'.out \in {"customer_invalid", "car_invalid", "ask_date"}
  /\ <<menu, last>>' # <<menu, last>>

\* the step is the end of choice A of the rental menu
CreationStep == menu.pc = "end_date" /\ menu'.out = "rental_created"

\* C14: choice A of the rental menu writes a rental only if the customer id
\* and the car id given are each held by an active slot at that moment; an
\* attempt with an id that is not writes no byte of any of the three files
\* and asks for no date.
C14_RentalNeedsBoth ==
  [][/\ CreationAttempt =>
          IF /\ ActiveWithId("customer", files["customer"],
                             menu'.cust_id) # {}
             /\ ActiveWithId("car", files["car"], menu'.car_id) # {}
          THEN menu'.pc = "start_date" /\ files' = files
          ELSE menu'.pc = "main" /\ files' = files
     /\ files'["rental"] # files["rental"] /\ menu'.out = "rental_created" =>
          \A i \in ChangedSlots("rental", files["rental"], files'["rental"]) :
            \A rec \in {SlotRec("rental", files'["rental"], i)} :
              /\ ActiveWithId("customer", files["customer"],
                              rec["CustomerID"]) # {}
              /\ ActiveWithId("car", files["car"], rec["CarID"]) # {}]_vars

\* C14 witness: an attempt was refused for a car that is deleted, the
\* customer being active, and the rentals file is still empty
C14_Witness ==
  /\ menu.pc = "main" /\ menu.out = "car_invalid"
  /\ ActiveWithId("customer", files["customer"], menu.cust_id) # {}
  /\ \E i \in SlotIdx("car", files["car"]) :
       /\ ~SlotActive("car", files["car"], i)
       /\ SlotId("car", files["car"], i) = menu.car_id
  /\ files["rental"] = << >>

\* the lines typed as dates, the int get_date_input returns for each and the
\* day each falls on, counted from 1 January 2025
KnownDates ==
  { [line |-> <<48, 49, 48, 49, 50, 48, 50, 53>>, int |-> 1012025, day |-> 0],
    [line |-> <<48, 49, 48, 49, 3666, 3664, 3666, 3669>>, int |-> 1012025,
     day |-> 0],
    [line |-> <<32, 48, 51, 48, 49, 50, 48, 50, 53, 32>>, int |-> 3012025,
     day |-> 2],
    [line |-> <<51, 49, 49, 50, 50, 48, 50, 52>>, int |-> 31122024,
     day |-> -1] }

\* C15: the rental stored by choice A has TotalPrice = r * ((E - S in days)
\* + 1) for the rate r of the car and the dates S and E typed, in one slot,
\* nothing else of the rentals file changed; for rate 1200, start 01012025
\* and end 03012025 on an empty rentals file the price stored is 3600 and
\* get_all_records lists exactly that one record.
C15_TotalPrice ==
  [][CreationStep =>
       \E s, e \in KnownDates :
         /\ s.int = menu.start_date_int
         /\ e.line = menu'.typed
         /\ \A f \in {files["rental"]} : \A g \in {files'["rental"]} :
            \A r \in {SlotRec("car", files["car"],
                              Lowest(ActiveWithId("car", files["car"],
                                                  menu.car_id)))
                        ["DailyRate"]} :
            \A rec \in {[IsActive |-> TRUE, ID |-> menu.rental_id,
                         CustomerID |-> menu.cust_id, CarID |-> menu.car_id,
                         StartDate |-> s.int, EndDate |-> e.int,
                         TotalPrice |-> r * ((e.day - s.day) + 1)]} :
              /\ \E i \in SlotIdx("rental", g) :
                   /\ ChangedSlots("rental", f, g) = {i}
                   /\ SlotRec("rental", g, i) = rec
              /\ (f = << >> /\ r = 1200 /\ s.int = 1012025
                  /\ e.int = 3012025)
                   => /\ rec["TotalPrice"] = 3600
                      /\ get_all_records("rental", g) = << rec >>]_vars

\* C15 witness: the rentals file is the one rental of 01012025 to 03012025
\* at 3600, just created
C15_Witness ==
  /\ menu.out = "rental_created"
  /\ NumSlots("rental", files["rental"]) = 1
  /\ SlotActive("rental", files["rental"], 0)
  /\ \A rec \in {SlotRec("rental", files["rental"], 0)} :
       /\ rec["StartDate"] = 1012025 /\ rec["EndDate"] = 3012025
       /\ rec["TotalPrice"] = 3600

\* "3101225" (7 digits) and "31022025" (8 digits, no such day)
MalformedLines ==
  { <<51, 49, 48, 49, 50, 50, 53>>, <<51, 49, 48, 50, 50, 48, 50, 53>> }

\* C16: a malformed line typed at a date prompt (not 8 digits, or 8 digits
\* that are no calendar date) is refused: the prompt stays, no file changes
\* and no FileManager call is made; no rental stored holds such a line as a
\* date.
C16_MalformedDate ==
  [][/\ (/\ menu.pc \in {"start_date", "end_date"}
         /\ menu'.typed \in MalformedLines
         /\ menu'.pc # "exited"
         /\ menu' # menu)
        => /\ menu'.out = "date_rejected"
           /\ menu'.pc = menu.pc
           /\ menu'.start_date_int = menu.start_date_int
           /\ files' = files
           /\ last' = last
     /\ \A i \in ChangedSlots("rental", files["rental"], files'["rental"]) :
          \A rec \in {SlotRec("rental", files'["rental"], i)} :
            /\ rec["StartDate"] \notin {3101225, 31022025}
            /\ rec["EndDate"] \notin {3101225, 31022025}]_vars

\* C16 witness: "3101225" was refused as the end date after 01012025 was
\* taken as the start date, the rentals file still empty
C16_Witness ==
  /\ menu.pc = "end_date" /\ menu.out = "date_rejected"
  /\ menu.typed = <<51, 49, 48, 49, 50, 50, 53>>
  /\ menu.start_date_int = 1012025
  /\ files["rental"] = << >>

\* C17: a second close of a manager leaves every file and every handle as it
\* was and has one fixed outcome: it raises ValueError (the flush of a closed
\* file object).
C17_CloseTwice ==
  [][CallOnClosed({"close"})
       => /\ last'.exc = "ValueError"
          /\ files' = files
          /\ handle' = handle]_vars

\* C17 witness: close raised on the closed manager of a file with a record
C17_Witness ==
  /\ last.op = "close" /\ last.exc = "ValueError"
  /\ handle[last.m] = "closed"
  /\ NumSlots(last.m, files[last.m]) > 0

\* C18: when main has returned, by choice X or by an exception raised in a
\* menu, close was called exactly once on each of the three managers and
\* each is closed.
C18_ClosedOnceOnExit ==
  menu.pc = "exited" =>
    \A m \in Managers : menu.closes[m] = 1 /\ handle[m] = "closed"

\* C19: after close, add_record, get_record_by_id, update_record,
\* delete_record and get_all_records each raise an error, none returns, and
\* every file stays as it was.
C19_ClosedFails ==
  [][CallOnClosed({"add_record", "get_record_by_id", "update_record",
                   "delete_record", "get_all_records"})
       => /\ last'.exc # "none"
          /\ Len(last'.ret) = 0
          /\ files' = files]_vars

\* C19 witness: add_record raised on the closed manager of a file that has an
\* inactive slot it would otherwise have reused
C19_Witness ==
  /\ last.op = "add_record" /\ last.exc = "ValueError"
  /\ handle[last.m] = "closed"
  /\ FreeSlots(last.m, files[last.m]) # {}

\* C20 helpers: the value a round trip is expected to give
FitsBounds(m, v) ==
  /\ \A k \in TextKeys(m) : Len(encode(v[k])) <= TextWidth(k)
  /\ \A k \in IntKeys(m) : InInt32(v[k])
HasNul(m, v) == \E k \in TextKeys(m) : \E i \in 1..Len(v[k]) : v[k][i] = 0
Trimmed(m, v) ==
  [k \in DOMAIN v |-> IF k \in TextKeys(m) THEN strip(v[k]) ELSE v[k]]
UpToNul(t) ==
  IF \E i \in 1..Len(t) : t[i] = 0
  THEN SubSeq(t, 1, (CHOOSE i \in 1..Len(t) :
                       t[i] = 0 /\ \A j \in 1..(i - 1) : t[j] # 0) - 1)
  ELSE t
CutAndTrimmed(m, v) ==
  [k \in DOMAIN v |->
     IF k \in TextKeys(m) THEN strip(UpToNul(v[k])) ELSE v[k]]
PackedOf(c) == c.ret[1]
UnpackedOf(c) == c.ret[2]

\* C20 (as claimed): for every Car, Customer and Rental value whose text
\* fields fit their byte widths and whose integers fit 32 bits,
\* _pack_record(v) has record_size bytes and _unpack_record(_pack_record(v))
\* is v with the text fields trimmed of whitespace.
C20_RoundTrip ==
  (last.op = "_pack_record" /\ FitsBounds(last.m, last.arg)) =>
     /\ Len(PackedOf(last)) = record_size(last.m)
     /\ UnpackedOf(last) = Trimmed(last.m, last.arg)

\* C20 (amended): for every such value, _pack_record(v) has record_size
\* bytes and _unpack_record(_pack_record(v)) is v with each text field cut
\* at its first NUL character and then trimmed of whitespace; it is v with
\* the text fields trimmed when no text field holds a NUL character.
C20_RoundTripUpToNul ==
  (last.op = "_pack_record" /\ FitsBounds(last.m, last.arg)) =>
     /\ Len(PackedOf(last)) = record_size(last.m)
     /\ UnpackedOf(last) = CutAndTrimmed(last.m, last.arg)
     /\ ~HasNul(last.m, last.arg)
          => UnpackedOf(last) = Trimmed(last.m, last.arg)

\* C20 witness: a car with a model padded by blanks and a plate of Thai
\* letters filling 9 of its 10 bytes came back trimmed and whole
C20_Witness ==
  /\ last.op = "_pack_record" /\ last.m = "car"
  /\ last.arg["Model"] = <<32, 84, 32>>
  /\ last.arg["LicensePlate"] = <<3619, 3619, 3619>>
  /\ last.arg["ID"] = -1
  /\ UnpackedOf(last)["Model"] = <<84>>
  /\ UnpackedOf(last)["LicensePlate"] = <<3619, 3619, 3619>>
  /\ UnpackedOf(last)["ID"] = -1

\* a record handed to a manager of kind m lacks a key _pack_record subscripts
LacksField(m, d) == RequiredKeys(m) \ (DOMAIN d) # {}

\* a text field of d does not fit its width once encoded
Oversize(m, d) ==
  \E k \in TextKeys(m) \cap (DOMAIN d) : Len(encode(d[k])) > TextWidth(k)

\* the step is a call of add_record or update_record
WriteCallStep ==
  /\ last'.op \in {"add_record", "update_record"}
  /\ last' # last

\* the call of the step failed and left the file as it was
FailedUnchanged ==
  /\ \/ last'.exc # "none"
     \/ last'.op = "update_record" /\ last'.ret = << FALSE >>
  /\ files' = files

\* C21 (as claimed): add_record and update_record called with a record that
\* lacks a required field fail before any write and leave the file unchanged.
C21_MissingFieldFails ==
  [][(WriteCallStep /\ LacksField(last'.m, last'.arg)) => FailedUnchanged]_vars

\* C21 (amended): add_record called with a record that lacks a required
\* field raises KeyError and leaves the file unchanged; update_record called
\* on an active id with fields that lack a required field returns True,
\* rewrites the slot in place and keeps the stored value of every field it
\* was not given.
C21_MissingField ==
  [][(WriteCallStep /\ LacksField(last'.m, last'.arg)) =>
       LET m == last'.m
           f == files[m]
           g == files'[m]
       IN  /\ last'.op = "add_record" =>
                /\ last'.exc = "KeyError"
                /\ files' = files
           /\ (last'.op = "update_record"
               /\ ActiveWithId(m, f, last'.id) # {}) =>
                LET i == Lowest(ActiveWithId(m, f, last'.id))
                IN  /\ last'.ret = << TRUE >>
                    /\ last'.offset = i * record_size(m)
                    /\ Len(g) = Len(f)
                    /\ \A k \in RequiredKeys(m) \ (DOMAIN last'.arg) :
                         SlotRec(m, g, i)[k] = SlotRec(m, f, i)[k]
                    /\ \A j \in SlotIdx(m, f) \ {i} :
                         SlotBytes(m, g, j) = SlotBytes(m, f, j)]_vars

\* C21 witness: on a file holding an active record, add_record of a record
\* without a required field raised KeyError
C21_Witness ==
  \E m \in Managers :
    /\ last.op = "add_record" /\ last.m = m /\ last.exc = "KeyError"
    /\ LacksField(m, last.arg)
    /\ ActiveWithId(m, files[m], 1) # {}

\* C22: add_record and update_record called with a text field longer than
\* its width are rejected before any write; no truncated record is stored.
C22_OversizeRejected ==
  [][(WriteCallStep /\ Oversize(last'.m, last'.arg)) => FailedUnchanged]_vars

\* the fields handed to update_record name another ID or IsActive False
NamesOtherIdentity(c) ==
  \/ "ID" \in DOMAIN c.arg /\ c.arg["ID"] # c.id
  \/ "IsActive" \in DOMAIN c.arg /\ c.arg["IsActive"] = FALSE

\* C26: update_record(id, fields) never changes identity or activation: when
\* fields carries another ID or IsActive False, the rewritten slot still has
\* ID = id and IsActive true, and the active slots of every id stay the same.
C26_IdentityKept ==
  [][(UpdateOkStep /\ NamesOtherIdentity(last')) =>
       LET m == last'.m
           f == files[m]
           g == files'[m]
           i == last'.offset \div record_size(m)
       IN  /\ i = Lowest(ActiveWithId(m, f, last'.id))
           /\ SlotRec(m, g, i)["ID"] = last'.id
           /\ SlotRec(m, g, i)["IsActive"] = TRUE
           /\ Len(g) = Len(f)
           /\ \A id \in EdgeIds :
                ActiveWithId(m, g, id) = ActiveWithId(m, f, id)]_vars

\* C26 witness: record 1 was updated with fields naming ID 2 and IsActive
\* False; it is still the active record 1 and no record 2 exists
C26_Witness ==
  \E m \in Managers :
    /\ last.op = "update_record" /\ last.m = m /\ last.ret = << TRUE >>
    /\ last.id = 1
    /\ last.arg = CHOOSE nd \in EdgeUpdateInputs(m) : "ID" \in DOMAIN nd
    /\ ActiveWithId(m, files[m], 1) # {}
    /\ ActiveWithId(m, files[m], 2) = {}

\* the longest prefix of text t whose encoding fits w bytes
FitPrefix(t, w) ==
  LET fits == {n \in 0..Len(t) : Len(encode(SubSeq(t, 1, n))) <= w}
  IN  SubSeq(t, 1, CHOOSE n \in fits : \A k \in fits : k <= n)

\* the last call was an add_record that returned, and no slot other than
\* the one it wrote holds its ID actively
AddedAlone ==
  /\ last.op = "add_record" /\ last.exc = "none"
  /\ ActiveWithId(last.m, files[last.m], last.id)
       \ {last.offset \div record_size(last.m)} = {}

\* C29 (as claimed): after add_record(r) returned o for a record whose ID no
\* other active slot holds, get_record_by_id(r.ID) returns the fields of r
\* with IsActive true, at offset o, whatever IsActive the caller passed
\* (stated for the records whose text fields fit their widths).
C29_AddThenGet ==
  (AddedAlone /\ ~Oversize(last.m, last.arg)) =>
    \A result \in {get_record_by_id(last.m, files[last.m], last.id)} :
      /\ Len(result) = 2
      /\ result[2] = last.ret[1]
      /\ result[1]["IsActive"] = TRUE
      /\ \A k \in (DOMAIN last.arg) \ {"IsActive"} :
           result[1][k] = last.arg[k]

\* C29 (amended): after such an add, get_record_by_id(r.ID) returns offset
\* o and a record with IsActive true whose numeric fields are those of r and
\* whose text fields are those of r cut to the characters that fit the
\* field's width, cut at the first NUL character and trimmed of whitespace.
C29_AddThenGetStored ==
  AddedAlone =>
    \A result \in {get_record_by_id(last.m, files[last.m], last.id)} :
      /\ Len(result) = 2
      /\ result[2] = last.ret[1]
      /\ result[1]["IsActive"] = TRUE
      /\ \A k \in (DOMAIN last.arg) \ {"IsActive"} :
           result[1][k] =
             IF k \in TextKeys(last.m)
             THEN strip(UpToNul(FitPrefix(last.arg[k], TextWidth(k))))
             ELSE last.arg[k]

\* C29 witness: a record passed with IsActive False was added and is found
\* active at the returned offset
C29_Witness ==
  /\ AddedAlone
  /\ "IsActive" \in DOMAIN last.arg /\ last.arg["IsActive"] = FALSE
  /\ Len(get_record_by_id(last.m, files[last.m], last.id)) = 2
  /\ NumSlots(last.m, files[last.m]) = 2
  /\ last.offset = record_size(last.m)

\* the step is an update_record that returned True for the IsRented mark
\* of the rental menu
IsRentedStep ==
  /\ UpdateOkStep
  /\ last'.m = "car"
  /\ DOMAIN last'.arg = {"IsRented"}

\* the bytes of a text field are what _pack_record writes for trimmed text:
\* well-formed UTF-8 with no whitespace at either end, then only zero bytes
FieldAsPacked(bs) ==
  LET t == BeforeNul(bs)
  IN  /\ \A i \in (Len(t) + 1)..Len(bs) : bs[i] = 0
      /\ encode(decode(t)) = t
      /\ strip(decode(t)) = decode(t)

\* no text field of the car slot at offset o was cut inside a character
WholeText(f, o) ==
  \A field \in {SubSeq(f, o + 6, o + 35), SubSeq(f, o + 36, o + 45)} :
    encode(decode(BeforeNul(field))) = BeforeNul(field)

\* C27 (as claimed): update_record(car_id, {'IsRented': ...}) leaves every
\* byte of the cars file as it was (stated for the cars whose stored text
\* was not cut by the field width).
C27_IsRentedNoBytes ==
  [][(IsRentedStep /\ WholeText(files["car"], last'.offset))
       => files' = files]_vars

\* C27 (amended): update_record(car_id, {'IsRented': ...}) stores nothing of
\* IsRented: the file length, the bytes of every other slot, the flag, ID
\* and DailyRate bytes of the car's slot and every record get_all_records
\* reads are as before; the car's slot keeps every byte when its Model and
\* LicensePlate bytes are as _pack_record writes trimmed text.
C27_IsRentedNoRecord ==
  [][IsRentedStep =>
       LET f == files["car"]
           g == files'["car"]
           i == last'.offset \div record_size("car")
           b == SlotBytes("car", f, i)
           c == SlotBytes("car", g, i)
       IN  /\ Len(g) = Len(f)
           /\ \A j \in SlotIdx("car", f) \ {i} :
                SlotBytes("car", g, j) = SlotBytes("car", f, j)
           /\ SubSeq(c, 1, 5) = SubSeq(b, 1, 5)
           /\ SubSeq(c, 46, 53) = SubSeq(b, 46, 53)
           /\ get_all_records("car", g) = get_all_records("car", f)
           /\ (FieldAsPacked(SubSeq(b, 6, 35))
               /\ FieldAsPacked(SubSeq(b, 36, 45))) => g = f
           /\ FieldAsPacked(SubSeq(c, 6, 35))
           /\ FieldAsPacked(SubSeq(c, 36, 45))]_vars

\* C27 witness: the IsRented mark was written over a car whose plate had
\* been stored with a trailing blank; the car reads back as before
C27_Witness ==
  /\ last.op = "update_record" /\ last.m = "car"
  /\ last.ret = << TRUE >> /\ DOMAIN last.arg = {"IsRented"}
  /\ last.id = 2
  /\ \E r \in {get_record_by_id("car", files["car"], 2)} :
       /\ Len(r) = 2
       /\ r[1]["LicensePlate"] = <<65, 66, 67, 68, 69, 70, 71, 72, 73>>
       /\ r[1]["Model"] = <<84>>

\* the file of manager m ends in a partial slot
PartialTail(m, f) == Len(f) % record_size(m) # 0

\* C25: when the file ends in a partial slot, get_record_by_id and
\* get_all_records treat it as end of data: the partial bytes are never
\* returned as a record nor matched against an id, and the complete slots
\* before it are scanned as usual.
C25_PartialTailIgnored ==
  (last.exc = "none" /\ last.m \in Managers
   /\ PartialTail(last.m, files[last.m])) =>
    \A m \in {last.m} : \A f \in {files[m]} :
      /\ last.op = "get_record_by_id" =>
           \A A \in {ActiveWithId(m, f, last.id)} :
             IF A = {} THEN last.ret = << >>
             ELSE last.ret = << SlotRec(m, f, Lowest(A)),
                                Lowest(A) * record_size(m) >>
      /\ last.op = "get_all_records" =>
           \A A \in {ActiveSlots(m, f)} :
             /\ Len(last.ret) = Cardinality(A)
             /\ \A k \in 1..Len(last.ret) :
                  last.ret[k] = SlotRec(m, f, KthOf(A, k))

\* C25 witness: get_record_by_id returned None for an id that the partial
\* slot at the end of the file carries behind a true flag, after scanning
\* one complete slot
C25_Witness ==
  \E m \in Managers :
    LET f == files[m]
        e == NumSlots(m, f) * record_size(m)
    IN  /\ last.op = "get_record_by_id" /\ last.m = m /\ last.ret = << >>
        /\ NumSlots(m, f) = 1
        /\ Len(f) >= e + 5
        /\ PartialTail(m, f)
        /\ f[e + 1] = 1
        /\ UnpackInt32(SubSeq(f, e + 2, e + 5)) = last.id

\* C30: when the file ends in a partial slot left by an interrupted write
\* and has no inactive slot, add_record returns a multiple of the record
\* size, and the record is found by the following get_record_by_id and
\* get_all_records.
C30_AddAfterCrash ==
  [][(AddStep /\ PartialTail(last'.m, files[last'.m])
      /\ FreeSlots(last'.m, files[last'.m]) = {}) =>
       \A m \in {last'.m} : \A g \in {files'[m]} :
         \A d \in {_unpack_record(m, _pack_record(m, ForceActive(last'.arg)))} :
           /\ last'.ret[1] % record_size(m) = 0
           /\ \E r \in {get_record_by_id(m, g, last'.id)} :
                Len(r) = 2 /\ r[1] = d
           /\ \E k \in 1..Len(get_all_records(m, g)) :
                get_all_records(m, g)[k] = d]_vars

\* the active rental slots that name car c
RentalsOfCar(f, c) ==
  {i \in ActiveSlots("rental", f) : SlotRec("rental", f, i)["CarID"] = c}

\* C23: rental closure on an active rental id first tombstones the Rental
\* and only afterwards attempts the car update; on an absent or already
\* closed id it writes nothing to rentals or cars.
C23_CloseOrder ==
  [][\A f \in {files["rental"]} : \A g \in {files'["rental"]} :
       /\ (menu.pc = "main" /\ menu'.pc = "closing") =>
            \A A \in {ActiveWithId("rental", f, last'.id)} :
              /\ last'.op = "delete_record" /\ last'.m = "rental"
              /\ A # {}
              /\ ActiveWithId("rental", g, last'.id) = A \ {Lowest(A)}
              /\ g = WriteAt(f, Lowest(A) * record_size("rental"), << 0 >>)
              /\ menu'.car_id = SlotRec("rental", f, Lowest(A))["CarID"]
              /\ files'["car"] = files["car"]
              /\ files'["customer"] = files["customer"]
       /\ menu.pc = "closing" =>
            /\ menu'.pc = "main"
            /\ last'.op = "update_record" /\ last'.m = "car"
            /\ last'.id = menu.car_id
            /\ g = f
            /\ files'["customer"] = files["customer"]
       /\ (menu.pc = "main" /\ menu'.pc \in {"main", "closing"}
           /\ last'.m = "rental"
           /\ last'.op \in {"get_record_by_id", "delete_record"}
           /\ menu'.out \in {"rental_missing", "rental_tombstoned"}
           /\ <<last, menu>>' # <<last, menu>>) =>
            IF ActiveWithId("rental", f, last'.id) = {}
            THEN files' = files /\ menu'.pc = "main"
            ELSE menu'.pc = "closing"]_vars

\* C23 witness: between the two calls of a closure: the rental is
\* tombstoned, the car update has not been made yet
C23_Witness ==
  /\ menu.pc = "closing"
  /\ last.op = "delete_record" /\ last.m = "rental" /\ last.ret = << TRUE >>
  /\ ActiveWithId("rental", files["rental"], last.id) = {}
  /\ NumSlots("rental", files["rental"]) >= 1
  /\ ActiveWithId("car", files["car"], menu.car_id) # {}

\* the step is choice D of the car menu or of the customer menu
MenuDeleteStep ==
  /\ menu.pc = "main"
  /\ last'.op = "delete_record" /\ last'.m \in {"car", "customer"}
  /\ <<last, files>>' # <<last, files>>

\* C24: delete_record on a Car or Customer succeeds whenever the record is
\* active, whatever active Rentals reference it, and leaves the rentals file
\* unchanged (so an active Rental can come to name an inactive record).
C24_DeleteUnchecked ==
  [][MenuDeleteStep =>
       \A m \in {last'.m} : \A A \in {ActiveWithId(m, files[m], last'.id)} :
         /\ files'["rental"] = files["rental"]
         /\ last'.ret = << A # {} >>
         /\ A # {} =>
              ActiveWithId(m, files'[m], last'.id) = A \ {Lowest(A)}]_vars

\* C24 witness: the car of an active rental was deleted: the rental names a
\* car id that no active car slot holds
C24_Witness ==
  /\ last.op = "delete_record" /\ last.m = "car" /\ last.ret = << TRUE >>
  /\ RentalsOfCar(files["rental"], last.id) # {}
  /\ ActiveWithId("car", files["car"], last.id) = {}

\* C28: a currently rented car cannot be rented again: at most one active
\* Rental references any Car id.
C28_OneRentalPerCar ==
  \A c \in MainIds : Cardinality(RentalsOfCar(files["rental"], c)) <= 1

\* the number of records get_all_records lists from the file of manager m
ActiveCount(m, f) == Len(get_all_records(m, f))

\* C31: each add_record that returns increases the number of active slots
\* (the length of get_all_records) by exactly one, each delete_record that
\* returns True decreases it by exactly one, update_record and every call
\* that fails or only reads leave it unchanged; the number of slots of a
\* file never decreases.
C31_ActiveAccounting ==
  [][\A m \in Managers : \A f \in {files[m]} : \A g \in {files'[m]} :
       IF g = f
       THEN ~((AddStep \/ DeleteOkStep) /\ last'.m = m)
       ELSE \A before \in {ActiveCount(m, f)} :
            \A after \in {ActiveCount(m, g)} :
              /\ NumSlots(m, g) >= NumSlots(m, f)
              /\ after = Cardinality(ActiveSlots(m, g))
              /\ IF AddStep /\ last'.m = m
                 THEN after = before + 1
                 ELSE IF DeleteOkStep /\ last'.m = m
                 THEN after = before - 1
                 ELSE after = before]_vars

\* C31 witness: after two adds and a delete, a file of two slots lists one
\* record
C31_Witness ==
  \E m \in Managers :
    /\ last.op = "delete_record" /\ last.m = m /\ last.ret = << TRUE >>
    /\ Len(hist) = 3
    /\ NumSlots(m, files[m]) = 2
    /\ ActiveCount(m, files[m]) = 1

\* what a call returns and the file content it leaves
Outcome(out) == << out.ret, out.file >>

\* the outcome of every call that could come next on manager m, the file
\* holding f and the file object standing at p
Later(m, f, p) ==
  [add     |-> [data \in AddInputs(m) |->
                  Outcome(add_record_at(m, f, p, data))],
   update  |-> [x \in Ids \X UpdateInputs(m) |->
                  Outcome(update_record_at(m, f, p, x[1], x[2]))],
   delete  |-> [id \in Ids |-> Outcome(delete_record_at(m, f, p, id))],
   get     |-> [id \in Ids |-> Outcome(get_record_by_id_at(m, f, p, id))],
   get_all |-> Outcome(get_all_records_at(m, f, p))]

\* the step is a call of get_record_by_id or get_all_records
ReadStep ==
  /\ last'.op \in {"get_record_by_id", "get_all_records"}
  /\ last'.exc = "none"
  /\ <<last, pos>>' # <<last, pos>>

\* C32: get_record_by_id and get_all_records are read-only: they leave the
\* content and the length of the file unchanged, and a call of either does
\* not change what any following call returns or writes.
C32_ReadsReadOnly ==
  [][ReadStep =>
       /\ files' = files
       /\ handle' = handle
       /\ \A m \in {last'.m} :
            Later(m, files'[m], pos'[m]) = Later(m, files[m], pos[m])]_vars

\* C32 witness: get_all_records has left the file object at the end of a
\* file of two slots whose first slot is inactive, where the next add_record
\* has to go back to
C32_Witness ==
  \E m \in Managers :
    /\ last.op = "get_all_records" /\ last.m = m
    /\ NumSlots(m, files[m]) = 2
    /\ pos[m] = Len(files[m])
    /\ ~SlotActive(m, files[m], 0)
    /\ SlotActive(m, files[m], 1)

\* the day a date held as the int DDMMYYYY falls on
DayOf(date_int) == toordinal(strptime(zfill8(date_int)))

\* C33: choice A of the rental menu never stores a rental whose end date is
\* before its start date: the rental written covers at least one day and
\* its TotalPrice is at least the daily rate of the car (a rate of 0 or
\* more).
C33_EndNotBeforeStart ==
  [][CreationStep =>
       \A f \in {files["rental"]} : \A g \in {files'["rental"]} :
       \A i \in ChangedSlots("rental", f, g) :
       \A rec \in {SlotRec("rental", g, i)} :
         /\ DayOf(rec["EndDate"]) >= DayOf(rec["StartDate"])
         /\ (DayOf(rec["EndDate"]) - DayOf(rec["StartDate"])) + 1 >= 1
         /\ menu.daily_rate >= 0 => rec["TotalPrice"] >= menu.daily_rate]_vars

====
